---- MODULE Spec2Model ----
(***************************************************************************)
(* Retrieval-and-synthesis pipeline of rag_strategies:                     *)
(*   RAGSystem.process_query -> QueryProcessor.search ->                   *)
(*   ResponseGenerator.generate_response,                                  *)
(* its batch mode (RAGSystem.process_batch_queries), two queries in flight *)
(* at once, and the ingestion that fills the store (process_batch of       *)
(* scripts/run_ingestion.py, DocumentProcessor.process_root_documents).    *)
(*                                                                         *)
(* Specifications: Spec and SpecRanked (one query), SpecLive (the same     *)
(* when every external call answers), SpecBatch, SpecTasks, SpecIngest,    *)
(* SpecFanOut (the workers of run_ingestion), SpecClient (threads that     *)
(* construct OpenAIClient), and SpecAsm / SpecGen (_process_chunks and     *)
(* generate_response called alone).                                        *)
(*                                                                         *)
(* Scores and confidences are Python floats in the source.  Here a score   *)
(* is an integer number of hundredths (0.7 is 70) and a confidence is an   *)
(* exact fraction of hundredths [num, den] in lowest terms, so a mean is   *)
(* computed without rounding.                                              *)
(***************************************************************************)
EXTENDS Integers, Sequences, FiniteSets, TLC

(***************************************************************************)
(* Program constants.                                                      *)
(***************************************************************************)
SummaryK == 5            \* _search_summaries: knnBeta k
AnchoredK == 10          \* _get_chunks_from_summaries: knnBeta k
AnchoredLimit == 10      \* _get_chunks_from_summaries: $limit
FallbackK == 5           \* _get_chunks_from_summaries: fallback knnBeta k
DirectK == 10            \* _direct_chunk_search: knnBeta k
DirectLimit == 5         \* _direct_chunk_search: $limit
MinChunks == 3           \* search: if len(chunks) < 3
DefaultScore == 70       \* chunk.get('score', 0.7)
SummaryConfidence == 90  \* "confidence": 0.9 of a summary citation
ConfidenceCap == 95      \* min(0.95, ...)
NumWorkers == 10         \* run_ingestion: num_workers

(***************************************************************************)
(* Bounds of the model.                                                    *)
(***************************************************************************)
MaxStoreSummaries == 6   \* summaries held by the store
MaxStoreChunks == 3      \* chunks held by the store
MaxChunkList == 3        \* length of a list handed to _process_chunks
MaxRankedChunks == 11    \* chunks held by a ranked store
MaxBatch == 2            \* queries of one batch
MaxIngestBatch == 2      \* root ids of one ingestion batch
MaxDocs == 2             \* source documents of one root id
MaxChunksPerDoc == 2     \* chunks the chunker makes of one document
MaxRootIds == 2          \* root ids run_ingestion fans out
MaxListLen == 21         \* length of a root id list that is only partitioned
MaxThreads == 4          \* threads that construct OpenAIClient

(***************************************************************************)
(* Text.  A string is a sequence of one-character strings.                 *)
(***************************************************************************)
IsSpace(c) == c \in {" ", "\n"}

LowerChar(c) == IF c = "A" THEN "a" ELSE IF c = "B" THEN "b" ELSE c

\* str.lower()
Lower(s) == [i \in 1..Len(s) |-> LowerChar(s[i])]

\* str.split(): the maximal runs of non-whitespace characters, in order
RECURSIVE SplitWords(_, _, _)
SplitWords(s, cur, acc) ==
    IF s = <<>>
    THEN IF cur = <<>> THEN acc ELSE Append(acc, cur)
    ELSE IF IsSpace(Head(s))
         THEN SplitWords(Tail(s), <<>>, IF cur = <<>> THEN acc ELSE Append(acc, cur))
         ELSE SplitWords(Tail(s), Append(cur, Head(s)), acc)

Split(s) == SplitWords(s, <<>>, <<>>)

\* ' '.join(words)
RECURSIVE Join(_)
Join(words) ==
    IF words = <<>> THEN <<>>
    ELSE IF Len(words) = 1 THEN Head(words)
    ELSE Head(words) \o <<" ">> \o Join(Tail(words))

\* QueryProcessor._normalize_content
_normalize_content(content) == Join(Split(Lower(content)))

(***************************************************************************)
(* Dictionaries.  A dict is a function on a set of string keys.            *)
(***************************************************************************)
\* d.get(k, default)
Get(d, k, default) == IF k \in DOMAIN d THEN d[k] ELSE default

\* {**a, **b} and a.update(b): the keys of b win
Merge(a, b) ==
    [k \in (DOMAIN a) \cup (DOMAIN b) |-> IF k \in DOMAIN b THEN b[k] ELSE a[k]]

EmptyDict == [k \in {} |-> ""]

(***************************************************************************)
(* Identifiers.  The store's _id values are ObjectIds; str(_id) is a       *)
(* string, and a string never equals an ObjectId.  A root id is a string.  *)
(***************************************************************************)
ObjectId(n) == [type |-> "ObjectId", value |-> n]

Str(id) == [type |-> "str", value |-> id.value]

None == [type |-> "None", value |-> 0]

(***************************************************************************)
(* Fractions of hundredths.                                                *)
(***************************************************************************)
RECURSIVE Gcd(_, _)
Gcd(a, b) == IF b = 0 THEN a ELSE Gcd(b, a % b)

\* n/d in lowest terms (n >= 0, d > 0)
Frac(n, d) == LET g == Gcd(n, d) IN [num |-> n \div g, den |-> d \div g]

Zero == Frac(0, 1)

\* a <= b
FracLeq(a, b) == a.num * b.den <= b.num * a.den

\* min(a, b) as Python computes it: b only when b < a
FracMin(a, b) == IF FracLeq(a, b) THEN a ELSE b

RECURSIVE SumSeq(_)
SumSeq(s) == IF s = <<>> THEN 0 ELSE Head(s) + SumSeq(Tail(s))

RECURSIVE SumFrac(_)
SumFrac(s) ==
    IF s = <<>> THEN Zero
    ELSE LET h == Head(s)
             t == SumFrac(Tail(s))
         IN  Frac(h.num * t.den + t.num * h.den, h.den * t.den)

\* sum(scores) / len(scores) over a non-empty list of fractions
MeanFrac(s) == LET t == SumFrac(s) IN Frac(t.num, t.den * Len(s))

(***************************************************************************)
(* Evidence Assembler: QueryProcessor._process_chunks                      *)
(***************************************************************************)
\* the chunk a raw store record is turned into
ProcessedChunk(chunk) ==
    [content |-> chunk.content,
     metadata |-> Get(chunk, "metadata", EmptyDict),
     root_id |-> Get(chunk, "root_id", None),
     summary_id |-> Get(chunk, "summary_id", None),
     score |-> Get(chunk, "score", DefaultScore)]

\* a loop that compares the contents as they are, not normalized
RECURSIVE DedupLoopRaw(_, _, _)
DedupLoopRaw(chunks, seen_content, processed_chunks) ==
    IF chunks = <<>> THEN processed_chunks
    ELSE LET chunk == Head(chunks)
         IN  IF chunk.content \notin seen_content
             THEN DedupLoopRaw(Tail(chunks), seen_content \cup {chunk.content},
                               Append(processed_chunks, ProcessedChunk(chunk)))
             ELSE DedupLoopRaw(Tail(chunks), seen_content, processed_chunks)

\* the loop of _process_chunks: first occurrence of each normalized content
RECURSIVE DedupLoop(_, _, _)
DedupLoop(chunks, seen_content, processed_chunks) ==
    IF chunks = <<>> THEN processed_chunks
    ELSE LET chunk == Head(chunks)
             normalized_content == _normalize_content(chunk.content)
         IN  IF normalized_content \notin seen_content
             THEN DedupLoop(Tail(chunks), seen_content \cup {normalized_content},
                            Append(processed_chunks, ProcessedChunk(chunk)))
             ELSE DedupLoop(Tail(chunks), seen_content, processed_chunks)

\* number of leading elements of s whose score is >= x
RECURSIVE LeadGeq(_, _)
LeadGeq(s, x) ==
    IF s = <<>> \/ Head(s).score < x THEN 0 ELSE 1 + LeadGeq(Tail(s), x)

\* number of leading elements of s whose score is > x
RECURSIVE LeadGt(_, _)
LeadGt(s, x) ==
    IF s = <<>> \/ Head(s).score <= x THEN 0 ELSE 1 + LeadGt(Tail(s), x)

InsertAt(s, k, x) == SubSeq(s, 1, k) \o <<x>> \o SubSeq(s, k + 1, Len(s))

\* a sort that puts an element before the earlier elements of equal score
RECURSIVE SortUnstable(_)
SortUnstable(s) ==
    IF s = <<>> THEN <<>>
    ELSE LET init == SortUnstable(SubSeq(s, 1, Len(s) - 1))
             x == s[Len(s)]
         IN  InsertAt(init, LeadGt(init, x.score), x)

\* list.sort(key=lambda x: x['score'], reverse=True): stable, descending
RECURSIVE SortByScore(_)
SortByScore(s) ==
    IF s = <<>> THEN <<>>
    ELSE LET init == SortByScore(SubSeq(s, 1, Len(s) - 1))
             x == s[Len(s)]
         IN  InsertAt(init, LeadGeq(init, x.score), x)

_process_chunks(chunks) == SortByScore(DedupLoop(chunks, {}, <<>>))

(***************************************************************************)
(* Response Synthesizer: ResponseGenerator                                 *)
(***************************************************************************)
NoContentAnswer == "I apologize, but I couldn't find relevant information to answer your question accurately."

GeneratorErrorAnswer == "I apologize, but I encountered an error while processing your question."

PipelineErrorAnswer == "I apologize, but I encountered an error processing your question."

\* datetime.utcnow().isoformat(): the clock is not modelled
Now == "utcnow"

\* ResponseGenerator._create_comprehensive_context: the parts that are
\* joined into the context, every summary before every chunk
_create_comprehensive_context(summaries, chunks) ==
    [i \in 1..Len(summaries) |->
        [label |-> "Summary", text |-> Get(summaries[i], "summary", <<>>)]]
    \o
    [i \in 1..Len(chunks) |->
        [label |-> "Detail", text |-> Get(chunks[i], "content", <<>>)]]

\* ResponseGenerator._format_chunks_for_prompt: numbered excerpts
_format_chunks_for_prompt(chunks) ==
    [i \in 1..Len(chunks) |->
        [label |-> "Source", n |-> i, text |-> Get(chunks[i], "content", <<>>)]]

\* ResponseGenerator._create_chunk_citations
_create_chunk_citations(chunks) ==
    [i \in 1..Len(chunks) |->
        [content |-> Get(chunks[i], "content", <<>>),
         metadata |->
            [document_path |->
                Get(Get(chunks[i], "metadata", EmptyDict), "component_path", ""),
             metadata |-> Get(chunks[i], "metadata", EmptyDict),
             confidence |-> Get(chunks[i], "score", DefaultScore)]]]

\* citations with the chunks ahead of the summaries
_create_citations_chunks_first(summaries, chunks) ==
    _create_chunk_citations(chunks)
    \o
    [i \in 1..Len(summaries) |->
        [content |-> Get(summaries[i], "summary", <<>>),
         metadata |->
            [document_path |-> "summary",
             metadata |-> Get(summaries[i], "metadata", EmptyDict),
             confidence |-> SummaryConfidence]]]

\* ResponseGenerator._create_citations
_create_citations(summaries, chunks) ==
    [i \in 1..Len(summaries) |->
        [content |-> Get(summaries[i], "summary", <<>>),
         metadata |->
            [document_path |-> "summary",
             metadata |-> Get(summaries[i], "metadata", EmptyDict),
             confidence |-> SummaryConfidence]]]
    \o _create_chunk_citations(chunks)

\* [cit['metadata']['confidence'] for cit in citations]
CitationScores(citations) ==
    [i \in 1..Len(citations) |-> citations[i].metadata.confidence]

\* a confidence that leaves out the summary-presence component
_calculate_confidence_mean_only(citations, summaries) ==
    IF citations = <<>> THEN Zero
    ELSE LET citation_scores == CitationScores(citations)
         IN  FracMin(Frac(ConfidenceCap, 1),
                     Frac(SumSeq(citation_scores), Len(citation_scores)))

\* ResponseGenerator._calculate_confidence
_calculate_confidence(citations, summaries) ==
    IF citations = <<>> THEN Zero
    ELSE LET citation_scores == CitationScores(citations)
             scores0 == IF summaries # <<>> THEN <<Frac(SummaryConfidence, 1)>> ELSE <<>>
             scores == IF citation_scores # <<>>
                       THEN Append(scores0,
                                   Frac(SumSeq(citation_scores), Len(citation_scores)))
                       ELSE scores0
         IN  FracMin(Frac(ConfidenceCap, 1), MeanFrac(scores))

\* a chunk confidence without the cap
_calculate_chunk_confidence_uncapped(citations) ==
    IF citations = <<>> THEN Zero
    ELSE LET scores == CitationScores(citations)
         IN  Frac(SumSeq(scores), Len(scores))

\* ResponseGenerator._calculate_chunk_confidence
_calculate_chunk_confidence(citations) ==
    IF citations = <<>> THEN Zero
    ELSE LET scores == CitationScores(citations)
         IN  FracMin(Frac(ConfidenceCap, 1), Frac(SumSeq(scores), Len(scores)))

\* ResponseGenerator._create_no_content_response
_create_no_content_response ==
    [answer |-> NoContentAnswer,
     citations |-> <<>>,
     metadata |-> [error |-> "No relevant content found"],
     confidence |-> Zero]

\* ResponseGenerator._create_error_response
_create_error_response(error) ==
    [answer |-> GeneratorErrorAnswer,
     citations |-> <<>>,
     metadata |-> [error |-> error, error_time |-> Now],
     confidence |-> Zero]

\* the prompt of _generate_comprehensive_response
ComprehensivePrompt(query, search_result) ==
    [template |-> "comprehensive",
     question |-> query,
     context |-> _create_comprehensive_context(search_result.summaries,
                                               search_result.chunks)]

\* the prompt of _generate_chunks_response
ChunksPrompt(query, search_result) ==
    [template |-> "chunks",
     question |-> query,
     context |-> _format_chunks_for_prompt(search_result.chunks)]

\* _generate_comprehensive_response once the completion call has returned
_generate_comprehensive_response(search_result, answer) ==
    LET summaries == search_result.summaries
        chunks == search_result.chunks
        citations == _create_citations(summaries, chunks)
    IN  [answer |-> answer,
         citations |-> citations,
         metadata |-> [sources_used |->
                          [summaries |-> Len(summaries), chunks |-> Len(chunks)]],
         confidence |-> _calculate_confidence(citations, summaries)]

\* _generate_chunks_response once the completion call has returned
_generate_chunks_response(search_result, answer) ==
    LET chunks == search_result.chunks
        citations == _create_chunk_citations(chunks)
    IN  [answer |-> answer,
         citations |-> citations,
         metadata |-> [sources_used |-> [chunks |-> Len(chunks)]],
         confidence |-> _calculate_chunk_confidence(citations)]

\* an update that leaves the caller's metadata out
UpdateMetadataWithoutCaller(response, search_result, metadata) ==
    [response EXCEPT !.metadata =
        Merge(@, [processed_at |-> Now,
                  search_type |-> Get(Get(search_result, "metadata", EmptyDict),
                                      "search_type", "unknown")])]

\* generate_response, lines 62-66: response['metadata'].update({...})
UpdateMetadata(response, search_result, metadata) ==
    [response EXCEPT !.metadata =
        Merge(@, Merge([processed_at |-> Now,
                        search_type |-> Get(Get(search_result, "metadata", EmptyDict),
                                            "search_type", "unknown")],
                       metadata))]

(***************************************************************************)
(* Exceptions.  A call either returns a value or raises an error; a        *)
(* handler maps the error it catches to what its function does next.       *)
(***************************************************************************)
Return(v) == [kind |-> "return", value |-> v]

Raise(e) == [kind |-> "raise", error |-> e]

\* QueryProcessor.search, lines 76-78: log and re-raise
search_except(e) == Raise(e)

\* a summary search that logs and re-raises
_search_summaries_reraises(e) == Raise(e)

\* _search_summaries, lines 118-120: log and return []
_search_summaries_except(e) == Return(<<>>)

\* _get_chunks_from_summaries, lines 215-217: log and return []
_get_chunks_from_summaries_except(e) == Return(<<>>)

\* a supplementary search that logs and re-raises
_direct_chunk_search_reraises(e) == Raise(e)

\* _direct_chunk_search, lines 269-271: log and return []
_direct_chunk_search_except(e) == Return(<<>>)

\* _generate_comprehensive_response / _generate_chunks_response: log and re-raise
_generate_response_except(e) == Raise(e)

\* generate_response, lines 70-72
generate_response_except(e) == Return(_create_error_response(e))

\* a handler that logs and re-raises
process_query_reraises(e) == Raise(e)

\* process_query, lines 56-63
process_query_except(e) ==
    Return([answer |-> PipelineErrorAnswer,
            citations |-> <<>>,
            confidence |-> Zero,
            metadata |-> [error |-> e]])

\* process_query, lines 44-54: response['metadata'] = {**..., processed_at, sources_used}
AddProcessingInfo(response, search_results) ==
    [response EXCEPT !.metadata =
        Merge(Get(response, "metadata", EmptyDict),
              [processed_at |-> Now,
               sources_used |->
                  [summaries |-> Len(Get(search_results, "summaries", <<>>)),
                   chunks |-> Len(Get(search_results, "chunks", <<>>))]])]

\* what process_query does with the outcome of a call made in its try block
ProcessQueryOutcome(outcome, search_results) ==
    IF outcome.kind = "raise"
    THEN process_query_except(outcome.error)
    ELSE Return(AddProcessingInfo(outcome.value, search_results))

\* what generate_response does with the outcome of its branch
GenerateResponseOutcome(outcome, search_result, metadata) ==
    IF outcome.kind = "raise"
    THEN generate_response_except(outcome.error)
    ELSE Return(UpdateMetadata(outcome.value, search_result, metadata))

(***************************************************************************)
(* Evidence Store (external).  A collection is the sequence of its records *)
(* in the order of their distance to the query, nearest first.             *)
(***************************************************************************)
Digit == <<"1", "2", "3", "4", "5", "6", "7", "8", "9">>

ComponentPaths == <<"1_a", "2_a", "3_a", "4_a", "5_a", "6_a", "7_a", "8_a", "9_a">>

RootId(i) == [type |-> "str", value |-> i]

\* the summary of root id i, as _create_summary / _store_summary write it
SummaryRecord(i) ==
    [_id |-> ObjectId(i),
     root_id |-> RootId(i),
     summary |-> <<"S", Digit[i]>>,
     metadata |-> [page_title |-> Digit[i]],
     score |-> 100 - i]

\* chunk j of the chunk collection, owned by the summary of root id owner
ChunkRecord(j, content, score, owner) ==
    [_id |-> ObjectId(MaxStoreSummaries + j),
     content |-> content,
     metadata |-> [component_path |-> ComponentPaths[owner]],
     root_id |-> RootId(owner),
     summary_id |-> ObjectId(owner),
     score |-> score]

Contents == {<<"a">>, <<"A", " ">>, <<"b">>}

ScoreLevels == {0, 100}

Min(a, b) == IF a <= b THEN a ELSE b

\* the first k items
Take(s, k) == SubSeq(s, 1, Min(k, Len(s)))

RECURSIVE SelectSeqBy(_, _)
SelectSeqBy(s, keep) ==
    IF s = <<>> THEN <<>>
    ELSE IF Head(s) \in keep THEN <<Head(s)>> \o SelectSeqBy(Tail(s), keep)
    ELSE SelectSeqBy(Tail(s), keep)

Range(s) == {s[i] : i \in 1..Len(s)}

\* the pipeline of _search_summaries
SummarySearch(store_summaries) == Take(store_summaries, SummaryK)

\* an anchored search that filters the collection before it ranks
AnchoredSearchFilterFirst(store_chunks, summaries) ==
    LET summary_ids == {summaries[i]._id : i \in 1..Len(summaries)}
        matched == {c \in Range(store_chunks) : c.summary_id \in summary_ids}
    IN  Take(SelectSeqBy(store_chunks, matched), AnchoredLimit)

\* the first pipeline of _get_chunks_from_summaries: knn 10, $match, $limit 10
AnchoredSearch(store_chunks, summaries) ==
    LET summary_ids == {summaries[i]._id : i \in 1..Len(summaries)}
        root_ids == {Get(summaries[i], "root_id", None) :
                        i \in {k \in 1..Len(summaries) : Get(summaries[k], "root_id", None) # None}}
        nearest == Take(store_chunks, AnchoredK)
        matched == {c \in Range(nearest) : c.summary_id \in summary_ids \/ c.root_id \in root_ids}
    IN  Take(SelectSeqBy(nearest, matched), AnchoredLimit)

\* a fallback search that returns the whole collection
FallbackSearchUnlimited(store_chunks) == store_chunks

\* the fallback pipeline of _get_chunks_from_summaries: knn 5
FallbackSearch(store_chunks) == Take(store_chunks, FallbackK)

\* a supplementary search without its $limit stage
DirectSearchUnlimited(store_chunks, existing_chunk_ids) ==
    LET nearest == Take(store_chunks, DirectK)
        matched == {c \in Range(nearest) : c._id \notin existing_chunk_ids}
    IN  SelectSeqBy(nearest, matched)

\* the pipeline of _direct_chunk_search: knn 10, $match _id $nin, $limit 5
DirectSearch(store_chunks, existing_chunk_ids) ==
    LET nearest == Take(store_chunks, DirectK)
        matched == {c \in Range(nearest) : c._id \notin existing_chunk_ids}
    IN  Take(SelectSeqBy(nearest, matched), DirectLimit)

\* search, line 59: [str(c['_id']) for c in chunks]
ExistingChunkIds(chunks) == {Str(chunks[i]._id) : i \in 1..Len(chunks)}

(***************************************************************************)
(* State.                                                                  *)
(***************************************************************************)
VARIABLES
    storeSummaries,     \* summary collection: nearest to the query first when
                        \* queried, in insertion order during ingestion
    storeChunks,        \* chunk collection, in the same order
    entry,              \* the operation that was called from outside
    pc,                 \* the await that operation is suspended at
    query,              \* argument of process_query
    metadata,           \* argument of process_query (None is the empty dict)
    query_embedding,    \* search: the embedded query
    relevant_summaries, \* search: result of _search_summaries
    chunks,             \* search: the collected chunk list
    search_results,     \* process_query: what search returned
    prompt,             \* what was sent to the completion service
    response,           \* what process_query returned
    raised,             \* an exception left process_query
    calls,              \* the external calls issued so far, in order
    batch_queries,      \* process_batch_queries: its argument
    responses,          \* process_batch_queries: the list it builds
    batch_log,          \* per finished query of a batch: the query and its call log
    sibling,            \* concurrent queries: the locals of the suspended coroutine
    current,            \* concurrent queries: the coroutine that is running
    docs_collection,    \* ingestion: the source documents, sorted by ComponentPath
    next_oid,           \* ingestion: the next ObjectId the store generates
    worker,             \* ingestion: the locals of process_batch and what it awaits
    tasks,              \* run_ingestion: its root ids, batches and suspended workers
    client,             \* openai_client: the class attributes and the threads
    arg_chunks,         \* Evidence Assembler alone: the list handed in
    out_chunks          \* Evidence Assembler alone: the list returned

vars == <<storeSummaries, storeChunks, entry, pc, query, metadata, query_embedding,
          relevant_summaries, chunks, search_results, prompt, response, raised,
          calls, batch_queries, responses, batch_log, sibling, current,
          docs_collection, next_oid, worker, tasks, client, arg_chunks, out_chunks>>

storeVars == <<storeSummaries, storeChunks, entry>>

batchVars == <<batch_queries, responses, batch_log>>

taskVars == <<sibling, current>>

fanVars == <<tasks, client>>

ingestVars == <<docs_collection, next_oid, worker, fanVars>>

\* the state of the operations that run around process_query
modeVars == <<batchVars, taskVars, ingestVars>>

asmVars == <<arg_chunks, out_chunks>>

Queries == {"Does a repair need to be completed prior to close?"}

CallerMetadata ==
    {EmptyDict,
     [test_run |-> "yes",
      error |-> "caller",
      processed_at |-> "caller time",
      search_type |-> "caller",
      sources_used |-> [summaries |-> 9, chunks |-> 9]]}

CompletionTexts == {"text one", "text two"}

\* no query has been embedded yet
NoEmbedding == [text |-> "", call |-> 0]

\* the vector the Embedding Service returns for a text on its nth call
Embedding(text, nth) == [text |-> text, call |-> nth]

NoSearchResults == [chunks |-> <<>>, summaries |-> <<>>, metadata |-> EmptyDict]

NoPrompt == [template |-> "none", question |-> "", context |-> <<>>]

NoResponse ==
    [answer |-> "", citations |-> <<>>, confidence |-> Zero, metadata |-> EmptyDict]

\* process_batch_queries has not been called
NoBatch == batch_queries = <<>> /\ responses = <<>> /\ batch_log = <<>>

\* the locals of a process_query coroutine that has not started
IdleTask ==
    [pc |-> "idle", query |-> "", metadata |-> EmptyDict, query_embedding |-> NoEmbedding,
     relevant_summaries |-> <<>>, chunks |-> <<>>, search_results |-> NoSearchResults,
     prompt |-> NoPrompt, response |-> NoResponse, raised |-> FALSE, calls |-> <<>>]

\* no second query is in flight
NoTasks == sibling = IdleTask /\ current = 1

\* the locals of a process_batch coroutine that has not started
IdleWorker ==
    [pc |-> "idle", batch |-> <<>>, done |-> 0, successful |-> 0, failed |-> 0,
     related_docs |-> <<>>, summary_id |-> None, doc_idx |-> 0, chunks |-> <<>>,
     written |-> {}, before |-> [summaries |-> {}, chunks |-> {}], log |-> <<>>]

\* the fan-out of run_ingestion before it is called
NoWorkers ==
    [state |-> "idle", root_ids |-> <<>>, batches |-> <<>>, suspended |-> <<>>,
     running |-> 0, successful |-> 0, failed |-> 0]

\* openai_client once it is imported: the module body has constructed
\* _client, and no other thread is constructing
LoadedClient ==
    [_instance |-> 1, _initialized |-> TRUE, _embeddings_model |-> 1, _llm |-> 1,
     _lock |-> 0, imported |-> TRUE, built_embeddings |-> 1, built_llm |-> 1,
     threads |-> <<>>]

\* run_ingestion has not been called
NoIngestion ==
    /\ docs_collection = <<>> /\ next_oid = 1 /\ worker = IdleWorker
    /\ tasks = NoWorkers
    /\ client = LoadedClient

\* scores along a nearest-first ranking never increase
NonIncreasing(f, n) == \A i \in 1..(n - 1) : f[i] >= f[i + 1]

\* the number of summaries the model's stores hold: none, one, or more than
\* a summary search returns
SummaryCounts == {0, 1, MaxStoreSummaries}

\* the stores the model starts from: ns summaries (one per root id) and nc
\* chunks, each owned by the nearest or by the farthest summary
InitStore ==
    \E ns \in SummaryCounts :
    \E nc \in 0..(IF ns = 0 THEN 0 ELSE MaxStoreChunks) :
    \E cs \in [1..nc -> Contents] :
    \E sc \in {f \in [1..nc -> ScoreLevels] : NonIncreasing(f, nc)} :
    \E ow \in [1..nc -> {1, ns}] :
        /\ storeSummaries = [i \in 1..ns |-> SummaryRecord(i)]
        /\ storeChunks = [j \in 1..nc |-> ChunkRecord(j, cs[j], sc[j], ow[j])]

Init ==
    /\ InitStore
    /\ entry = "process_query"
    /\ pc = "idle"
    /\ query = ""
    /\ metadata = EmptyDict
    /\ query_embedding = NoEmbedding
    /\ relevant_summaries = <<>>
    /\ chunks = <<>>
    /\ search_results = NoSearchResults
    /\ prompt = NoPrompt
    /\ response = NoResponse
    /\ raised = FALSE
    /\ calls = <<>>
    /\ NoBatch
    /\ NoTasks
    /\ NoIngestion
    /\ arg_chunks = <<>>
    /\ out_chunks = <<>>

\* the external calls a store search makes
VectorSearches == {"summary_search", "anchored_search", "fallback_search", "direct_search"}

\* a stage that embeds the query again before it searches
QueryVectorReembedded(name) ==
    IF name = "direct_search"
    THEN Embedding(query, Cardinality({i \in 1..Len(calls) : calls[i].call = "embed"}) + 1)
    ELSE IF name \in VectorSearches THEN query_embedding ELSE NoEmbedding

\* "queryVector": query_embedding in the $vectorSearch stage of every store
\* search: the stage's query_embedding parameter, which search passes on
QueryVector(name) == IF name \in VectorSearches THEN query_embedding ELSE NoEmbedding

\* one entry of the call log
Call(name, outcome, items) ==
    [call |-> name, outcome |-> outcome, items |-> items, vector |-> QueryVector(name)]

\* process_query returns or raises
Finish(outcome) ==
    /\ pc' = "done"
    /\ IF outcome.kind = "return"
       THEN response' = outcome.value /\ raised' = FALSE
       ELSE response' = response /\ raised' = TRUE

\* a comprehensive branch that also asks for chunks
BranchNeedsChunks(sr) ==
    IF sr.summaries # <<>> /\ sr.chunks # <<>> THEN "comprehensive" ELSE "chunks"

\* generate_response, line 47: if search_result.get('summaries')
Branch(sr) == IF sr.summaries # <<>> THEN "comprehensive" ELSE "chunks"

\* a missing check
NoContentNever(sr) == FALSE

\* generate_response, line 44: no chunks and no summaries
NoContent(sr) == sr.chunks = <<>> /\ sr.summaries = <<>>

\* a fallback that is never taken
NeedsFallbackNever(results) == FALSE

\* _get_chunks_from_summaries, lines 172-181: the else of "if results"
NeedsFallback(results) == results = <<>>

\* an off-by-one sufficiency floor
NeedsMoreOffByOne(collected) == Len(collected) <= MinChunks

\* search, line 56: if len(chunks) < 3
NeedsMore(collected) == Len(collected) < MinChunks

\* generate_response returns to its caller: process_query, or the outside
GenerateReturns(generated, sr) ==
    Finish(IF entry = "generate_response" THEN generated
                                          ELSE ProcessQueryOutcome(generated, sr))

\* generate_response up to its completion call (lines 43-60): the no-content
\* return, or the prompt of the branch that runs
BeginGenerate(sr) ==
    IF NoContent(sr)
    THEN /\ GenerateReturns(Return(_create_no_content_response), sr)
         /\ prompt' = prompt
    ELSE /\ pc' = "completion"
         /\ prompt' = IF Branch(sr) = "comprehensive"
                      THEN ComprehensivePrompt(query, sr)
                      ELSE ChunksPrompt(query, sr)
         /\ UNCHANGED <<response, raised>>

\* search, lines 64-74, then process_query line 38
SearchReturns(all_chunks, summaries) ==
    LET processed_chunks == _process_chunks(all_chunks)
        sr == [chunks |-> processed_chunks,
               summaries |-> summaries,
               metadata |-> [total_chunks |-> Len(processed_chunks),
                             summary_count |-> Len(summaries),
                             search_type |-> "hybrid"]]
    IN  /\ chunks' = all_chunks
        /\ search_results' = sr
        /\ BeginGenerate(sr)

\* an exception that leaves a stage leaves search (lines 76-78) and is
\* caught by process_query (lines 56-63)
SearchRaises(e) ==
    /\ Finish(ProcessQueryOutcome(search_except(e), NoSearchResults))
    /\ UNCHANGED <<chunks, search_results, prompt>>

\* search, lines 55-62, once _get_chunks_from_summaries has returned
AfterSummaryChunks(chunks_from_summaries, summaries) ==
    IF NeedsMore(chunks_from_summaries)
    THEN /\ pc' = "direct"
         /\ chunks' = chunks_from_summaries
         /\ UNCHANGED <<search_results, prompt, response, raised>>
    ELSE SearchReturns(chunks_from_summaries, summaries)

(***************************************************************************)
(* Actions of the Query Pipeline: one per await of process_query.          *)
(***************************************************************************)
\* RAGSystem.process_query is called
process_query ==
    /\ pc = "idle"
    /\ \E q \in Queries, m \in CallerMetadata : query' = q /\ metadata' = m
    /\ pc' = "embed"
    /\ UNCHANGED <<storeVars, modeVars, asmVars, query_embedding, relevant_summaries, chunks,
                   search_results, prompt, response, raised, calls>>

\* search, line 42: await self.embeddings.embed_query(query) returns
embed_query ==
    /\ pc = "embed"
    /\ query_embedding' = Embedding(query, Cardinality({i \in 1..Len(calls) : calls[i].call = "embed"}) + 1)
    /\ calls' = Append(calls, [Call("embed", "returned", <<>>) EXCEPT !.vector = query_embedding'])
    /\ pc' = "summaries"
    /\ UNCHANGED <<storeVars, modeVars, asmVars, query, metadata, relevant_summaries, chunks,
                   search_results, prompt, response, raised>>

\* search, line 42: embed_query raises; search re-raises, process_query catches
embed_query_raises ==
    /\ pc = "embed"
    /\ calls' = Append(calls, Call("embed", "raised", <<>>))
    /\ SearchRaises("embed_query failed")
    /\ UNCHANGED <<storeVars, modeVars, asmVars, query, metadata, query_embedding,
                   relevant_summaries>>

\* the exception of a store search leaves its stage, and then search
StageRaises(name, e) ==
    /\ calls' = Append(calls, Call(name, "raised", <<>>))
    /\ SearchRaises(e)
    /\ UNCHANGED <<storeVars, modeVars, asmVars, query, metadata, query_embedding,
                   relevant_summaries>>

\* _search_summaries returns (its results, or [] from its except clause);
\* with no summary _get_chunks_from_summaries returns [] without a search
SummaryStage(outcome, results) ==
    /\ pc = "summaries"
    /\ relevant_summaries' = results
    /\ calls' = Append(calls, Call("summary_search", outcome, results))
    /\ IF results = <<>>
       THEN AfterSummaryChunks(<<>>, results)
       ELSE /\ pc' = "anchored"
            /\ UNCHANGED <<chunks, search_results, prompt, response, raised>>
    /\ UNCHANGED <<storeVars, modeVars, asmVars, query, metadata, query_embedding>>

_search_summaries == SummaryStage("returned", SummarySearch(storeSummaries))

_search_summaries_raises ==
    /\ pc = "summaries"
    /\ LET handled == _search_summaries_except("summary search failed")
       IN  IF handled.kind = "return"
           THEN SummaryStage("raised", handled.value)
           ELSE StageRaises("summary_search", handled.error)

\* _get_chunks_from_summaries: the anchored search returns
anchored_search ==
    /\ pc = "anchored"
    /\ LET results == AnchoredSearch(storeChunks, relevant_summaries)
       IN  /\ calls' = Append(calls, Call("anchored_search", "returned", results))
           /\ IF NeedsFallback(results)
              THEN /\ pc' = "fallback"
                   /\ UNCHANGED <<chunks, search_results, prompt, response, raised>>
              ELSE AfterSummaryChunks(results, relevant_summaries)
    /\ UNCHANGED <<storeVars, modeVars, asmVars, query, metadata, query_embedding,
                   relevant_summaries>>

\* _get_chunks_from_summaries once its try block is left by an exception of
\* the anchored search: the fallback search inside the try block is skipped
AnchoredStage(outcome, results) ==
    /\ pc = "anchored"
    /\ calls' = Append(calls, Call("anchored_search", outcome, results))
    /\ AfterSummaryChunks(results, relevant_summaries)
    /\ UNCHANGED <<storeVars, modeVars, asmVars, query, metadata, query_embedding,
                   relevant_summaries>>

\* _get_chunks_from_summaries: the anchored search raises
anchored_search_raises ==
    /\ pc = "anchored"
    /\ LET handled == _get_chunks_from_summaries_except("anchored search failed")
       IN  IF handled.kind = "return"
           THEN AnchoredStage("raised", handled.value)
           ELSE StageRaises("anchored_search", handled.error)

\* _get_chunks_from_summaries: the fallback search returns or raises
FallbackStage(outcome, results) ==
    /\ pc = "fallback"
    /\ calls' = Append(calls, Call("fallback_search", outcome, results))
    /\ AfterSummaryChunks(results, relevant_summaries)
    /\ UNCHANGED <<storeVars, modeVars, asmVars, query, metadata, query_embedding,
                   relevant_summaries>>

fallback_search == FallbackStage("returned", FallbackSearch(storeChunks))

fallback_search_raises ==
    /\ pc = "fallback"
    /\ LET handled == _get_chunks_from_summaries_except("fallback search failed")
       IN  IF handled.kind = "return"
           THEN FallbackStage("raised", handled.value)
           ELSE StageRaises("fallback_search", handled.error)

\* _direct_chunk_search returns (its results, or [] from its except clause);
\* search extends the collected list and returns
DirectStage(outcome, additional_chunks) ==
    /\ pc = "direct"
    /\ calls' = Append(calls, Call("direct_search", outcome, additional_chunks))
    /\ SearchReturns(chunks \o additional_chunks, relevant_summaries)
    /\ UNCHANGED <<storeVars, modeVars, asmVars, query, metadata, query_embedding,
                   relevant_summaries>>

_direct_chunk_search ==
    DirectStage("returned", DirectSearch(storeChunks, ExistingChunkIds(chunks)))

_direct_chunk_search_raises ==
    /\ pc = "direct"
    /\ LET handled == _direct_chunk_search_except("direct search failed")
       IN  IF handled.kind = "return"
           THEN DirectStage("raised", handled.value)
           ELSE StageRaises("direct_search", handled.error)

\* await self.llm.ainvoke(prompt) returns: the branch builds its response,
\* generate_response updates the metadata, process_query adds its own
ainvoke ==
    /\ pc = "completion"
    /\ \E text \in CompletionTexts :
          LET branch == IF Branch(search_results) = "comprehensive"
                        THEN _generate_comprehensive_response(search_results, text)
                        ELSE _generate_chunks_response(search_results, text)
              generated == GenerateResponseOutcome(Return(branch), search_results, metadata)
          IN  /\ GenerateReturns(generated, search_results)
              /\ calls' = Append(calls, Call("completion", "returned", <<text>>))
    /\ UNCHANGED <<storeVars, modeVars, asmVars, query, metadata, query_embedding,
                   relevant_summaries, chunks, search_results, prompt>>

\* await self.llm.ainvoke(prompt) raises
ainvoke_raises ==
    /\ pc = "completion"
    /\ LET generated == GenerateResponseOutcome(
                            _generate_response_except("completion failed"),
                            search_results, metadata)
       IN  GenerateReturns(generated, search_results)
    /\ calls' = Append(calls, Call("completion", "raised", <<>>))
    /\ UNCHANGED <<storeVars, modeVars, asmVars, query, metadata, query_embedding,
                   relevant_summaries, chunks, search_results, prompt>>

Next ==
    \/ process_query
    \/ embed_query
    \/ embed_query_raises
    \/ _search_summaries
    \/ _search_summaries_raises
    \/ anchored_search
    \/ anchored_search_raises
    \/ fallback_search
    \/ fallback_search_raises
    \/ _direct_chunk_search
    \/ _direct_chunk_search_raises
    \/ ainvoke
    \/ ainvoke_raises

Spec == Init /\ [][Next]_vars

(***************************************************************************)
(* The Query Pipeline over chunk collections longer than the k and $limit  *)
(* of the searches.  The chunks are ranked by their distance to the query; *)
(* the chunks of the retrieved summary are the nearest or the farthest     *)
(* ones, and the nearest chunks may repeat one content.                    *)
(***************************************************************************)
RankedLetters == <<"b", "c", "d", "e", "f", "g", "h", "i", "j", "k", "l", "m", "n">>

\* chunk j when the dup nearest chunks hold the same text in different
\* case and spacing
RankedContent(j, dup) ==
    IF j <= dup THEN (IF j % 2 = 1 THEN <<"a">> ELSE <<"A", " ">>)
    ELSE <<RankedLetters[j]>>

\* the summary that owns chunk j: the nearest summary (retrieved) owns the
\* chunks on one side of rank split, the farthest (never retrieved) the rest
RankedOwner(j, split, nearest_first) ==
    IF (j <= split) = nearest_first THEN 1 ELSE MaxStoreSummaries

InitRankedStore ==
    \E nc \in 0..MaxRankedChunks :
    \E dup \in 0..nc :
    \E split \in 0..nc :
    \E nearest_first \in BOOLEAN :
        /\ storeSummaries = [i \in 1..MaxStoreSummaries |-> SummaryRecord(i)]
        /\ storeChunks =
              [j \in 1..nc |-> ChunkRecord(j, RankedContent(j, dup), 100 - 5 * j,
                                           RankedOwner(j, split, nearest_first))]

InitRanked ==
    /\ InitRankedStore
    /\ entry = "process_query"
    /\ pc = "idle"
    /\ query = ""
    /\ metadata = EmptyDict
    /\ query_embedding = NoEmbedding
    /\ relevant_summaries = <<>>
    /\ chunks = <<>>
    /\ search_results = NoSearchResults
    /\ prompt = NoPrompt
    /\ response = NoResponse
    /\ raised = FALSE
    /\ calls = <<>>
    /\ NoBatch
    /\ NoTasks
    /\ NoIngestion
    /\ arg_chunks = <<>>
    /\ out_chunks = <<>>

SpecRanked == InitRanked /\ [][Next]_vars

\* the same pipeline when every awaited external call eventually returns or
\* raises: the event loop then resumes the coroutine, so it does not stay at
\* an await forever
\* the awaits of process_query at which an external call is pending
AwaitPoints == {"embed", "summaries", "anchored", "fallback", "direct", "completion"}

\* the pending external call returns or raises and the coroutine runs on to
\* its next await or to its return
Resumed ==
    /\ pc \in AwaitPoints
    /\ pc' \in (AwaitPoints \cup {"done"}) \ {pc}

SpecLive == InitRanked /\ [][Next]_vars /\ WF_pc(Resumed)

(***************************************************************************)
(* Batch mode: process_batch_queries awaits process_query for one query    *)
(* after the other.                                                        *)
(***************************************************************************)
BatchQueryTexts == Queries \cup {"Who pays for the repair?"}

RECURSIVE SeqsUpTo(_, _)
SeqsUpTo(S, n) ==
    IF n = 0 THEN {<<>>}
    ELSE LET shorter == SeqsUpTo(S, n - 1)
         IN  shorter \cup {Append(q, x) : q \in shorter, x \in S}

\* the stores a batch runs on: one summary with no chunk or with two chunks
InitBatchStore ==
    \E nc \in {0, 2} :
        /\ storeSummaries = <<SummaryRecord(1)>>
        /\ storeChunks = [j \in 1..nc |-> ChunkRecord(j, <<RankedLetters[j]>>, 100, 1)]

InitBatch ==
    /\ InitBatchStore
    /\ entry = "process_batch_queries"
    /\ pc = "idle"
    /\ query = ""
    /\ metadata = EmptyDict
    /\ query_embedding = NoEmbedding
    /\ relevant_summaries = <<>>
    /\ chunks = <<>>
    /\ search_results = NoSearchResults
    /\ prompt = NoPrompt
    /\ response = NoResponse
    /\ raised = FALSE
    /\ calls = <<>>
    /\ NoBatch
    /\ NoTasks
    /\ NoIngestion
    /\ arg_chunks = <<>>
    /\ out_chunks = <<>>

\* a loop that leaves failed queries out of its result
BatchEntryDropsErrors(outcome, q) ==
    IF outcome.kind = "return" /\ outcome.value.confidence # Zero
    THEN <<outcome.value>>
    ELSE <<>>

\* process_batch_queries, lines 74-85: what the loop appends for one query
BatchEntry(outcome, q) ==
    IF outcome.kind = "return"
    THEN <<outcome.value>>
    ELSE <<[error |-> outcome.error, query |-> q]>>

\* process_batch_queries, lines 73-79 and 87: the next iteration awaits
\* process_query with fresh locals, or the loop is over and the list returned
BatchLoop(queries, done) ==
    IF done < Len(queries)
    THEN /\ query' = queries[done + 1]
         /\ pc' = "embed"
         /\ query_embedding' = NoEmbedding
         /\ relevant_summaries' = <<>>
         /\ chunks' = <<>>
         /\ search_results' = NoSearchResults
         /\ prompt' = NoPrompt
         /\ response' = NoResponse
         /\ raised' = FALSE
         /\ calls' = <<>>
    ELSE /\ pc' = "batch_done"
         /\ UNCHANGED <<query, query_embedding, relevant_summaries, chunks,
                        search_results, prompt, response, raised, calls>>

\* RAGSystem.process_batch_queries is called
process_batch_queries ==
    /\ entry = "process_batch_queries"
    /\ pc = "idle"
    /\ \E qs \in SeqsUpTo(BatchQueryTexts, MaxBatch), m \in CallerMetadata :
          /\ batch_queries' = qs
          /\ metadata' = m
          /\ BatchLoop(qs, 0)
    /\ responses' = <<>>
    /\ batch_log' = <<>>
    /\ UNCHANGED <<storeVars, taskVars, ingestVars, asmVars>>

\* await self.process_query(...) is over: the loop appends its entry and goes on
batch_step ==
    /\ entry = "process_batch_queries"
    /\ pc = "done"
    /\ responses' = responses \o BatchEntry(IF raised THEN Raise("process_query failed")
                                                     ELSE Return(response), query)
    /\ batch_log' = Append(batch_log, [query |-> query, calls |-> calls])
    /\ BatchLoop(batch_queries, Len(batch_log) + 1)
    /\ UNCHANGED <<storeVars, taskVars, ingestVars, asmVars, batch_queries, metadata>>

NextBatch ==
    \/ process_batch_queries
    \/ batch_step
    \/ embed_query
    \/ embed_query_raises
    \/ _search_summaries
    \/ _search_summaries_raises
    \/ anchored_search
    \/ anchored_search_raises
    \/ fallback_search
    \/ fallback_search_raises
    \/ _direct_chunk_search
    \/ _direct_chunk_search_raises
    \/ ainvoke
    \/ ainvoke_raises

SpecBatch == InitBatch /\ [][NextBatch]_vars

(***************************************************************************)
(* Two queries in flight on one RAGSystem.  Each process_query call is a   *)
(* coroutine with locals of its own; the event loop runs one coroutine at  *)
(* a time and may change to the other one at every await.  The variables   *)
(* of the pipeline hold the locals of the running coroutine, sibling those *)
(* of the suspended one.                                                   *)
(***************************************************************************)
\* the locals of the running coroutine
RunningTask ==
    [pc |-> pc, query |-> query, metadata |-> metadata,
     query_embedding |-> query_embedding, relevant_summaries |-> relevant_summaries,
     chunks |-> chunks, search_results |-> search_results, prompt |-> prompt,
     response |-> response, raised |-> raised, calls |-> calls]

\* a chunk list kept on the QueryProcessor instead of in the coroutine
ResumeSharedChunks(own, other) == [own EXCEPT !.chunks = other.chunks]

\* what a coroutine finds when it is resumed: the locals it was suspended
\* with, whatever the other coroutine did in between
Resume(own, other) == own

\* the stores two queries run on: two chunks of equal score, each under the
\* nearest summary or under one that is not retrieved, or no chunk
InitTaskStore ==
    \E nc \in {0, 2} :
    \E ow \in [1..nc -> {1, MaxStoreSummaries}] :
        /\ storeSummaries = [i \in 1..MaxStoreSummaries |-> SummaryRecord(i)]
        /\ storeChunks = [j \in 1..nc |-> ChunkRecord(j, <<RankedLetters[j]>>, 100, ow[j])]

InitTasks ==
    /\ InitTaskStore
    /\ entry = "concurrent_queries"
    /\ pc = "idle"
    /\ query = ""
    /\ metadata = EmptyDict
    /\ query_embedding = NoEmbedding
    /\ relevant_summaries = <<>>
    /\ chunks = <<>>
    /\ search_results = NoSearchResults
    /\ prompt = NoPrompt
    /\ response = NoResponse
    /\ raised = FALSE
    /\ calls = <<>>
    /\ NoBatch
    /\ NoTasks
    /\ NoIngestion
    /\ arg_chunks = <<>>
    /\ out_chunks = <<>>

\* process_query is called twice on the same RAGSystem before either call
\* is over: both coroutines reach the await of the embedding call
start_queries ==
    /\ entry = "concurrent_queries"
    /\ pc = "idle"
    /\ sibling.pc = "idle"
    /\ \E m1 \in CallerMetadata, m2 \in CallerMetadata :
       \E q1 \in BatchQueryTexts, q2 \in BatchQueryTexts :
          /\ query' = q1
          /\ metadata' = m1
          /\ sibling' = [IdleTask EXCEPT !.pc = "embed", !.query = q2, !.metadata = m2]
    /\ pc' = "embed"
    /\ UNCHANGED <<storeVars, batchVars, ingestVars, asmVars, current, query_embedding,
                   relevant_summaries, chunks, search_results, prompt, response,
                   raised, calls>>

\* the event loop suspends the running coroutine at its await and resumes
\* the other one
switch_task ==
    /\ entry = "concurrent_queries"
    /\ pc # "idle"
    /\ sibling.pc # "done"
    /\ LET resumed == Resume(sibling, RunningTask)
       IN  /\ pc' = resumed.pc
           /\ query' = resumed.query
           /\ metadata' = resumed.metadata
           /\ query_embedding' = resumed.query_embedding
           /\ relevant_summaries' = resumed.relevant_summaries
           /\ chunks' = resumed.chunks
           /\ search_results' = resumed.search_results
           /\ prompt' = resumed.prompt
           /\ response' = resumed.response
           /\ raised' = resumed.raised
           /\ calls' = resumed.calls
    /\ sibling' = RunningTask
    /\ current' = 3 - current
    /\ UNCHANGED <<storeVars, batchVars, ingestVars, asmVars>>

NextTasks ==
    \/ start_queries
    \/ switch_task
    \/ embed_query
    \/ embed_query_raises
    \/ _search_summaries
    \/ _search_summaries_raises
    \/ anchored_search
    \/ anchored_search_raises
    \/ fallback_search
    \/ fallback_search_raises
    \/ _direct_chunk_search
    \/ _direct_chunk_search_raises
    \/ ainvoke
    \/ ainvoke_raises

SpecTasks == InitTasks /\ [][NextTasks]_vars

(***************************************************************************)
(* Ingestion: process_batch of run_ingestion.py cleans up and re-creates   *)
(* the summary and the chunks of one root id after the other through       *)
(* DocumentProcessor.process_root_documents.  Identifiers and component    *)
(* paths are sequences of characters.                                      *)
(***************************************************************************)
IngestRootIds == {<<"x", "1">>, <<"x", "2">>}

DocParts == <<"a", "b", "c", "d">>

\* source document k of a root id
SourceDocument(root_id, k) ==
    [ComponentPath |-> root_id \o <<"_", DocParts[k]>>, PageTitle |-> DocParts[k]]

\* str.split('_')[0]
RECURSIVE BeforeUnderscore(_)
BeforeUnderscore(s) ==
    IF s = <<>> \/ Head(s) = "_" THEN <<>>
    ELSE <<Head(s)>> \o BeforeUnderscore(Tail(s))

\* DocumentProcessor._extract_root_id, and chunker.py line 28
_extract_root_id(component_path) == BeforeUnderscore(component_path)

\* _get_related_documents: {"ComponentPath": {"$regex": f"^{root_id}_.*"}}
MatchesRoot(component_path, root_id) ==
    /\ Len(component_path) > Len(root_id)
    /\ SubSeq(component_path, 1, Len(root_id) + 1) = root_id \o <<"_">>

\* _get_related_documents: find(...).sort("ComponentPath", 1)
RelatedDocuments(docs, root_id) ==
    LET related(doc) == MatchesRoot(doc.ComponentPath, root_id)
    IN  SelectSeq(docs, related)

\* a delete_many whose filter matches nothing
delete_many_none(collection, root_id) == collection

\* collection.delete_many({"root_id": root_id})
delete_many(collection, root_id) ==
    LET kept(record) == record.root_id # root_id
    IN  SelectSeq(collection, kept)

\* a cleanup whose filter matches no chunk
CleanupChunksNone(store_chunks, root_id) == store_chunks

\* process_batch, line 76: the chunks of the root id are deleted
CleanupChunks(store_chunks, root_id) == delete_many(store_chunks, root_id)

\* the summary document of _create_summary, with the _id insert_one gives it
SummaryDocument(documents, id) ==
    [_id |-> id,
     root_id |-> _extract_root_id(documents[1].ComponentPath),
     page_title |-> documents[1].PageTitle,
     source_documents |-> [k \in 1..Len(documents) |-> documents[k].ComponentPath]]

\* chunk k of a document as create_semantic_chunks and _process_document
\* build it
ChunkDocument(document, k, summary_id) ==
    [content |-> <<document.PageTitle, Digit[k]>>,
     metadata |-> [component_path |-> document.ComponentPath],
     root_id |-> _extract_root_id(document.ComponentPath),
     summary_id |-> summary_id]

\* the n chunks _parse_chunks takes from the LLM response: a chunk needs the
\* keys content and chunk_metadata, and its content is taken as it is, so
\* the last one may have the empty string the LLM wrote
ParsedChunks(document, n, blank, summary_id) ==
    [k \in 1..n |->
        IF blank /\ k = n
        THEN [ChunkDocument(document, k, summary_id) EXCEPT !.content = <<>>]
        ELSE ChunkDocument(document, k, summary_id)]

\* insert_many: the store gives each document the next ObjectId
Inserted(documents, first_oid) ==
    [k \in 1..Len(documents) |->
        [_id |-> ObjectId(first_oid + k - 1),
         content |-> documents[k].content,
         metadata |-> documents[k].metadata,
         root_id |-> documents[k].root_id,
         summary_id |-> documents[k].summary_id]]

\* the summary collection has a unique index on root_id
DuplicateKey(store_summaries, root_id) ==
    \E i \in 1..Len(store_summaries) : store_summaries[i].root_id = root_id

\* the source collections ingestion starts from: up to MaxDocs documents of
\* one root id, at most one of the other, sorted by component path
InitDocs ==
    \E n1 \in 0..MaxDocs, n2 \in 0..1 :
        docs_collection =
            [k \in 1..n1 |-> SourceDocument(<<"x", "1">>, k)]
            \o [k \in 1..n2 |-> SourceDocument(<<"x", "2">>, k)]

InitIngest ==
    /\ InitDocs
    /\ storeSummaries = <<>>
    /\ storeChunks = <<>>
    /\ next_oid = 1
    /\ worker = IdleWorker
    /\ tasks = NoWorkers
    /\ client = LoadedClient
    /\ entry = "process_batch"
    /\ pc = "idle"
    /\ query = ""
    /\ metadata = EmptyDict
    /\ query_embedding = NoEmbedding
    /\ relevant_summaries = <<>>
    /\ chunks = <<>>
    /\ search_results = NoSearchResults
    /\ prompt = NoPrompt
    /\ response = NoResponse
    /\ raised = FALSE
    /\ calls = <<>>
    /\ NoBatch
    /\ NoTasks
    /\ arg_chunks = <<>>
    /\ out_chunks = <<>>

queryVars ==
    <<entry, pc, query, metadata, query_embedding, relevant_summaries, chunks,
      search_results, prompt, response, raised, calls, batchVars, taskVars, asmVars,
      fanVars>>

\* the root id process_batch is working on
CurrentRoot(w) == w.batch[w.done + 1]

\* the _id of every record a collection holds for a root id
RootRecordIds(collection, root_id) ==
    {collection[k]._id : k \in {j \in 1..Len(collection) : collection[j].root_id = root_id}}

\* what the store holds for the root id when its cleanup begins (line 76)
Before(w) ==
    [summaries |-> RootRecordIds(storeSummaries, CurrentRoot(w)),
     chunks |-> RootRecordIds(storeChunks, CurrentRoot(w))]

\* process_batch, lines 72-87: the root id is counted as successful or
\* failed, and the loop goes to the next root id or returns
NextRoot(w, ok) ==
    LET counted ==
            [w EXCEPT !.successful = @ + (IF ok THEN 1 ELSE 0),
                      !.failed = @ + (IF ok THEN 0 ELSE 1),
                      !.done = @ + 1,
                      !.log = Append(@, [root_id |-> CurrentRoot(w),
                                         ok |-> ok,
                                         stage |-> w.pc,
                                         before |-> w.before,
                                         documents |-> Len(w.related_docs),
                                         summary_id |-> w.summary_id,
                                         chunk_ids |-> w.written]),
                      !.related_docs = <<>>,
                      !.summary_id = None,
                      !.doc_idx = 0,
                      !.chunks = <<>>,
                      !.written = {},
                      !.before = [summaries |-> {}, chunks |-> {}]]
    IN  [counted EXCEPT !.pc = IF counted.done < Len(counted.batch)
                               THEN "delete_chunks" ELSE "batch_done"]

\* process_batch is called with a batch of root ids
process_batch ==
    /\ entry = "process_batch"
    /\ worker.pc = "idle"
    /\ \E batch \in SeqsUpTo(IngestRootIds, MaxIngestBatch) \ {<<>>} :
          worker' = [IdleWorker EXCEPT !.pc = "delete_chunks", !.batch = batch]
    /\ UNCHANGED <<storeSummaries, storeChunks, docs_collection, next_oid, queryVars>>

\* an awaited call of the store, the LLM or the embeddings raises: the
\* exception reaches process_batch, which counts the root id as failed
ingestion_call_raises ==
    /\ worker.pc \in {"delete_chunks", "delete_summary", "find", "summarize",
                      "store_summary", "chunk"}
    /\ worker' = NextRoot(IF worker.pc = "delete_chunks"
                           THEN [worker EXCEPT !.before = Before(worker)]
                           ELSE worker, FALSE)
    /\ UNCHANGED <<storeSummaries, storeChunks, docs_collection, next_oid, queryVars>>

\* process_batch, line 76: chunks_collection.delete_many
delete_chunks ==
    /\ worker.pc = "delete_chunks"
    /\ storeChunks' = CleanupChunks(storeChunks, CurrentRoot(worker))
    /\ worker' = [worker EXCEPT !.pc = "delete_summary", !.before = Before(worker)]
    /\ UNCHANGED <<storeSummaries, docs_collection, next_oid, queryVars>>

\* process_batch, line 77: summary_collection.delete_many
delete_summary ==
    /\ worker.pc = "delete_summary"
    /\ storeSummaries' = delete_many(storeSummaries, CurrentRoot(worker))
    /\ worker' = [worker EXCEPT !.pc = "find"]
    /\ UNCHANGED <<storeChunks, docs_collection, next_oid, queryVars>>

\* process_root_documents, lines 54-57: no document returns at once
_get_related_documents ==
    /\ worker.pc = "find"
    /\ LET related_docs == RelatedDocuments(docs_collection, CurrentRoot(worker))
       IN  worker' = IF related_docs = <<>>
                     THEN NextRoot(worker, TRUE)
                     ELSE [worker EXCEPT !.pc = "summarize",
                                         !.related_docs = related_docs]
    /\ UNCHANGED <<storeSummaries, storeChunks, docs_collection, next_oid, queryVars>>

\* _create_summary: the completion call and the embedding call return
_create_summary ==
    /\ worker.pc = "summarize"
    /\ worker' = [worker EXCEPT !.pc = "store_summary"]
    /\ UNCHANGED <<storeSummaries, storeChunks, docs_collection, next_oid, queryVars>>

\* _store_summary: insert_one, refused by the unique index when a summary of
\* the root id is there
_store_summary ==
    /\ worker.pc = "store_summary"
    /\ LET summary_doc == SummaryDocument(worker.related_docs, ObjectId(next_oid))
       IN  IF DuplicateKey(storeSummaries, summary_doc.root_id)
           THEN /\ worker' = NextRoot(worker, FALSE)
                /\ UNCHANGED <<storeSummaries, next_oid>>
           ELSE /\ storeSummaries' = Append(storeSummaries, summary_doc)
                /\ next_oid' = next_oid + 1
                /\ worker' = [worker EXCEPT !.pc = "chunk",
                                            !.summary_id = summary_doc._id,
                                            !.doc_idx = 1]
    /\ UNCHANGED <<storeChunks, docs_collection, queryVars>>

\* _process_document: create_semantic_chunks returns at least one chunk
create_semantic_chunks ==
    /\ worker.pc = "chunk"
    /\ \E n \in 1..MaxChunksPerDoc, blank \in BOOLEAN :
          worker' = [worker EXCEPT
                        !.pc = "insert_chunks",
                        !.chunks = ParsedChunks(worker.related_docs[worker.doc_idx],
                                                n, blank, worker.summary_id)]
    /\ UNCHANGED <<storeSummaries, storeChunks, docs_collection, next_oid, queryVars>>

\* _process_document: insert_many stores the first stored chunks of the
\* document, all of them unless it raises
InsertChunks(stored, ok) ==
    LET inserted == Inserted(SubSeq(worker.chunks, 1, stored), next_oid)
        written == worker.written \cup {inserted[k]._id : k \in 1..stored}
    IN  /\ storeChunks' = storeChunks \o inserted
        /\ next_oid' = next_oid + stored
        /\ worker' =
              IF ok /\ worker.doc_idx < Len(worker.related_docs)
              THEN [worker EXCEPT !.pc = "chunk", !.doc_idx = @ + 1,
                                  !.chunks = <<>>, !.written = written]
              ELSE NextRoot([worker EXCEPT !.written = written], ok)
        /\ UNCHANGED <<storeSummaries, docs_collection, queryVars>>

insert_many ==
    /\ worker.pc = "insert_chunks"
    /\ InsertChunks(Len(worker.chunks), TRUE)

insert_many_raises ==
    /\ worker.pc = "insert_chunks"
    /\ \E stored \in 0..(Len(worker.chunks) - 1) : InsertChunks(stored, FALSE)

NextIngest ==
    \/ process_batch
    \/ ingestion_call_raises
    \/ delete_chunks
    \/ delete_summary
    \/ _get_related_documents
    \/ _create_summary
    \/ _store_summary
    \/ create_semantic_chunks
    \/ insert_many
    \/ insert_many_raises

SpecIngest == InitIngest /\ [][NextIngest]_vars

(***************************************************************************)
(* The Evidence Assembler alone: _process_chunks on any list of chunks.    *)
(***************************************************************************)
AsmContents ==
    {<<"a">>, <<"A", " ">>, <<"b">>, <<"a", "\n", "b">>, <<" ", "A", " ", " ", "B">>}

AsmScores == {40, 90}

\* a chunk as a store hands it over, with or without a score
RawChunk(j, content, score) ==
    [_id |-> ObjectId(j),
     content |-> content,
     metadata |-> [component_path |-> ComponentPaths[1]],
     root_id |-> RootId(1),
     summary_id |-> ObjectId(1),
     score |-> score]

Unscored(chunk) == [k \in (DOMAIN chunk) \ {"score"} |-> chunk[k]]

InitAsm ==
    /\ \E n \in 0..MaxChunkList :
       \E cs \in [1..n -> AsmContents] :
       \E sc \in [1..n -> AsmScores \cup {DefaultScore}] :
       \E has \in [1..n -> BOOLEAN] :
          /\ \A j \in 1..n : ~has[j] => sc[j] = DefaultScore
          /\ arg_chunks = [j \in 1..n |->
                              IF has[j] THEN RawChunk(j, cs[j], sc[j])
                                        ELSE Unscored(RawChunk(j, cs[j], sc[j]))]
    /\ storeSummaries = <<>>
    /\ storeChunks = <<>>
    /\ entry = "_process_chunks"
    /\ pc = "called"
    /\ query = ""
    /\ metadata = EmptyDict
    /\ query_embedding = NoEmbedding
    /\ relevant_summaries = <<>>
    /\ chunks = <<>>
    /\ search_results = NoSearchResults
    /\ prompt = NoPrompt
    /\ response = NoResponse
    /\ raised = FALSE
    /\ calls = <<>>
    /\ NoBatch
    /\ NoTasks
    /\ NoIngestion
    /\ out_chunks = <<>>

\* QueryProcessor._process_chunks(arg_chunks) runs and returns
process_chunks ==
    /\ entry = "_process_chunks"
    /\ pc = "called"
    /\ out_chunks' = _process_chunks(arg_chunks)
    /\ pc' = "done"
    /\ UNCHANGED <<storeVars, modeVars, arg_chunks, query, metadata, query_embedding,
                   relevant_summaries, chunks, search_results, prompt, response,
                   raised, calls>>

NextAsm == process_chunks

SpecAsm == InitAsm /\ [][NextAsm]_vars

(***************************************************************************)
(* The Response Synthesizer alone: generate_response on any search result. *)
(***************************************************************************)
GenScores == {0, 60, 100}

\* a chunk of a search result, with or without a score
GenChunk(j, score) ==
    [content |-> <<"c", Digit[j]>>,
     metadata |-> [component_path |-> ComponentPaths[j]],
     root_id |-> RootId(j),
     summary_id |-> ObjectId(j),
     score |-> score]

InitGen ==
    /\ \E ns \in 0..MaxStoreSummaries :
       \E n \in 0..MaxChunkList :
       \E sc \in [1..n -> GenScores \cup {DefaultScore}] :
       \E has \in [1..n -> BOOLEAN] :
          /\ \A j \in 1..n : ~has[j] => sc[j] = DefaultScore
          /\ search_results =
                [chunks |-> [j \in 1..n |->
                                IF has[j] THEN GenChunk(j, sc[j])
                                          ELSE Unscored(GenChunk(j, sc[j]))],
                 summaries |-> [i \in 1..ns |-> SummaryRecord(i)],
                 metadata |-> [total_chunks |-> n,
                               summary_count |-> ns,
                               search_type |-> "hybrid"]]
    /\ \E q \in Queries, m \in CallerMetadata : query = q /\ metadata = m
    /\ storeSummaries = <<>>
    /\ storeChunks = <<>>
    /\ entry = "generate_response"
    /\ pc = "called"
    /\ query_embedding = NoEmbedding
    /\ relevant_summaries = <<>>
    /\ chunks = <<>>
    /\ prompt = NoPrompt
    /\ response = NoResponse
    /\ raised = FALSE
    /\ calls = <<>>
    /\ NoBatch
    /\ NoTasks
    /\ NoIngestion
    /\ arg_chunks = <<>>
    /\ out_chunks = <<>>

\* ResponseGenerator.generate_response(query, search_results, metadata) is
\* called and runs up to its completion call
generate_response ==
    /\ entry = "generate_response"
    /\ pc = "called"
    /\ BeginGenerate(search_results)
    /\ UNCHANGED <<storeVars, modeVars, asmVars, query, metadata, query_embedding,
                   relevant_summaries, chunks, search_results, calls>>

NextGen ==
    \/ generate_response
    \/ ainvoke
    \/ ainvoke_raises

SpecGen == InitGen /\ [][NextGen]_vars

(***************************************************************************)
(* The fan-out of run_ingestion (lines 109-133): the root ids are cut into *)
(* batches, one process_batch task is created per batch, and the tasks run *)
(* interleaved at their awaits.  worker holds the locals of the task that  *)
(* is running, tasks.suspended those of the others.                        *)
(***************************************************************************)
FanRootIds == {<<"x", Digit[i]>> : i \in 1..MaxRootIds}

\* the lists of distinct root ids
DistinctLists(S, n) ==
    {l \in SeqsUpTo(S, n) : \A i, j \in 1..Len(l) : l[i] = l[j] => i = j}

\* math.ceil(a / b) for a >= 0 and b > 0
Ceil(a, b) == (a + b - 1) \div b

\* line 116: batch_size = math.ceil(total_roots / num_workers)
BatchSize(total_roots) == Ceil(total_roots, NumWorkers)

\* a slice that reaches one root id into the next batch
BatchOverlapping(root_ids, i, batch_size) ==
    SubSeq(root_ids, i, Min(i + batch_size, Len(root_ids)))

\* line 120: batch = root_ids[i:min(i + batch_size, total_roots)]; i counts
\* from 1 here
Batch(root_ids, i, batch_size) ==
    SubSeq(root_ids, i, Min(i + batch_size - 1, Len(root_ids)))

\* lines 118-121: for i in range(0, total_roots, batch_size):
\* batches.append(batch)
RECURSIVE Batches(_, _, _)
Batches(root_ids, i, batch_size) ==
    IF i > Len(root_ids) THEN <<>>
    ELSE <<Batch(root_ids, i, batch_size)>>
         \o Batches(root_ids, i + batch_size, batch_size)

\* the task asyncio.create_task makes of process_batch(processor, batch, n)
StartedWorker(batch) == [IdleWorker EXCEPT !.pc = "delete_chunks", !.batch = batch]

\* the source collection the fan-out runs on: one document for each of the
\* first two root ids, none for the others
InitFanDocs ==
    docs_collection = <<SourceDocument(<<"x", "1">>, 1), SourceDocument(<<"x", "2">>, 1)>>

InitFanOut ==
    /\ InitFanDocs
    /\ \E root_ids \in DistinctLists(FanRootIds, MaxRootIds) :
          tasks = [NoWorkers EXCEPT !.root_ids = root_ids]
    /\ client = LoadedClient
    /\ storeSummaries = <<>>
    /\ storeChunks = <<>>
    /\ next_oid = 1
    /\ worker = IdleWorker
    /\ entry = "run_ingestion"
    /\ pc = "idle"
    /\ query = ""
    /\ metadata = EmptyDict
    /\ query_embedding = NoEmbedding
    /\ relevant_summaries = <<>>
    /\ chunks = <<>>
    /\ search_results = NoSearchResults
    /\ prompt = NoPrompt
    /\ response = NoResponse
    /\ raised = FALSE
    /\ calls = <<>>
    /\ NoBatch
    /\ NoTasks
    /\ arg_chunks = <<>>
    /\ out_chunks = <<>>

fanUnchanged ==
    <<storeSummaries, storeChunks, docs_collection, next_oid, client,
      entry, pc, query, metadata, query_embedding, relevant_summaries, chunks,
      search_results, prompt, response, raised, calls, batchVars, taskVars, asmVars>>

\* run_ingestion without a root_id, lines 109-127: with no root id at all
\* batch_size is 0 and range(0, 0, 0) raises ValueError, which the except
\* clause of run_ingestion logs and re-raises; otherwise one task per batch
run_ingestion ==
    /\ entry = "run_ingestion"
    /\ tasks.state = "idle"
    /\ LET batch_size == BatchSize(Len(tasks.root_ids))
           batches == Batches(tasks.root_ids, 1, batch_size)
           started == [i \in 1..Len(batches) |-> StartedWorker(batches[i])]
       IN  IF batch_size = 0
           THEN /\ tasks' = [tasks EXCEPT !.state = "failed"]
                /\ worker' = worker
           ELSE /\ tasks' = [tasks EXCEPT !.state = "running",
                                          !.batches = batches,
                                          !.suspended = started,
                                          !.running = 1]
                /\ worker' = started[1]
    /\ UNCHANGED fanUnchanged

\* the running task is suspended at its await and the event loop resumes
\* another task that has not returned
switch_worker ==
    /\ entry = "run_ingestion"
    /\ tasks.state = "running"
    /\ \E i \in (1..Len(tasks.suspended)) \ {tasks.running} :
          /\ tasks.suspended[i].pc # "batch_done"
          /\ tasks' = [tasks EXCEPT !.suspended[tasks.running] = worker,
                                    !.running = i]
          /\ worker' = tasks.suspended[i]
    /\ UNCHANGED fanUnchanged

\* lines 133-140: as_completed has yielded every task; the counts are added
as_completed ==
    /\ entry = "run_ingestion"
    /\ tasks.state = "running"
    /\ worker.pc = "batch_done"
    /\ \A i \in (1..Len(tasks.suspended)) \ {tasks.running} :
          tasks.suspended[i].pc = "batch_done"
    /\ LET finished == [tasks.suspended EXCEPT ![tasks.running] = worker]
           successful == [i \in 1..Len(finished) |-> finished[i].successful]
           failed == [i \in 1..Len(finished) |-> finished[i].failed]
       IN  tasks' = [tasks EXCEPT !.state = "done",
                                  !.suspended = finished,
                                  !.successful = SumSeq(successful),
                                  !.failed = SumSeq(failed)]
    /\ worker' = worker
    /\ UNCHANGED fanUnchanged

NextFanOut ==
    \/ run_ingestion
    \/ switch_worker
    \/ as_completed
    \/ entry = "run_ingestion" /\ tasks.state = "running" /\ ingestion_call_raises
    \/ entry = "run_ingestion" /\ tasks.state = "running" /\ delete_chunks
    \/ entry = "run_ingestion" /\ tasks.state = "running" /\ delete_summary
    \/ entry = "run_ingestion" /\ tasks.state = "running" /\ _get_related_documents
    \/ entry = "run_ingestion" /\ tasks.state = "running" /\ _create_summary
    \/ entry = "run_ingestion" /\ tasks.state = "running" /\ _store_summary
    \/ entry = "run_ingestion" /\ tasks.state = "running" /\ create_semantic_chunks
    \/ entry = "run_ingestion" /\ tasks.state = "running" /\ insert_many
    \/ entry = "run_ingestion" /\ tasks.state = "running" /\ insert_many_raises

SpecFanOut == InitFanOut /\ [][NextFanOut]_vars

(***************************************************************************)
(* The shared client: openai_client.py.  The module body constructs        *)
(* _client = OpenAIClient() while the module is imported; threads that     *)
(* construct OpenAIClient() afterwards run __new__ under the class lock    *)
(* and __init__ without it.  An object or handle is the number of the      *)
(* construction that made it; 0 is None.                                   *)
(***************************************************************************)
Threads == 1..MaxThreads

\* the thread that imports the module first and so runs its body
Importer == 1

NewThread == [pc |-> "start", self |-> 0, embeddings |-> 0, llm |-> 0]

\* the class attributes before the module body runs
InitClient ==
    [_instance |-> 0, _initialized |-> FALSE, _embeddings_model |-> 0, _llm |-> 0,
     _lock |-> 0, imported |-> FALSE, built_embeddings |-> 0, built_llm |-> 0,
     threads |-> [t \in Threads |-> NewThread]]

\* a class that any thread can reach while its module is still being imported
MayConstructBeforeImport(c, t) == TRUE

\* the import system runs the module body in the importing thread and makes
\* every other importer of the module wait for it, so the class is reachable
\* by other threads only when _client = OpenAIClient() has returned
MayConstruct(c, t) == t = Importer \/ c.imported

\* __init__: if not self._initialized
NeedsInit(c) == ~c._initialized

\* a thread moves on
Step(t, to) == [client EXCEPT !.threads[t].pc = to]

\* __new__: with cls._lock
acquire_lock(t) ==
    /\ client.threads[t].pc = "start"
    /\ MayConstruct(client, t)
    /\ client._lock = 0
    /\ client' = [Step(t, "new") EXCEPT !._lock = t]

\* __new__: if cls._instance is None: cls._instance = super().__new__(cls);
\* return cls._instance, which releases the lock
__new__(t) ==
    /\ client.threads[t].pc = "new"
    /\ LET instance == IF client._instance = 0 THEN 1 ELSE client._instance
       IN  client' = [Step(t, "init") EXCEPT !._instance = instance,
                                            !._lock = 0,
                                            !.threads[t].self = instance]

\* __init__: the test of self._initialized; a client that is initialized
\* needs nothing more
__init__(t) ==
    /\ client.threads[t].pc = "init"
    /\ client' = IF NeedsInit(client)
                 THEN Step(t, "build_embeddings")
                 ELSE Step(t, "constructed")

\* __init__: self._embeddings_model = AsyncOpenAIEmbeddings(...)
build_embeddings(t) ==
    /\ client.threads[t].pc = "build_embeddings"
    /\ client' = [Step(t, "build_llm") EXCEPT
                     !.built_embeddings = @ + 1,
                     !._embeddings_model = client.built_embeddings + 1]

\* __init__: self._llm = ChatOpenAI(...)
build_llm(t) ==
    /\ client.threads[t].pc = "build_llm"
    /\ client' = [Step(t, "set_initialized") EXCEPT
                     !.built_llm = @ + 1,
                     !._llm = client.built_llm + 1]

\* __init__: self._initialized = True; in the importer the module body then
\* binds _client and defines the two accessors
set_initialized(t) ==
    /\ client.threads[t].pc = "set_initialized"
    /\ client' = [Step(t, "constructed") EXCEPT
                     !._initialized = TRUE,
                     !.imported = @ \/ t = Importer]

\* get_embeddings_model(): _client.embeddings
get_embeddings_model(t) ==
    /\ client.threads[t].pc = "constructed"
    /\ client.imported
    /\ client' = [Step(t, "got_embeddings") EXCEPT
                     !.threads[t].embeddings = client._embeddings_model]

\* get_llm(): _client.llm
get_llm(t) ==
    /\ client.threads[t].pc = "got_embeddings"
    /\ client' = [Step(t, "done") EXCEPT !.threads[t].llm = client._llm]

InitThreads ==
    /\ client = InitClient
    /\ entry = "OpenAIClient"
    /\ storeSummaries = <<>>
    /\ storeChunks = <<>>
    /\ docs_collection = <<>>
    /\ next_oid = 1
    /\ worker = IdleWorker
    /\ tasks = NoWorkers
    /\ pc = "idle"
    /\ query = ""
    /\ metadata = EmptyDict
    /\ query_embedding = NoEmbedding
    /\ relevant_summaries = <<>>
    /\ chunks = <<>>
    /\ search_results = NoSearchResults
    /\ prompt = NoPrompt
    /\ response = NoResponse
    /\ raised = FALSE
    /\ calls = <<>>
    /\ NoBatch
    /\ NoTasks
    /\ arg_chunks = <<>>
    /\ out_chunks = <<>>

clientUnchanged ==
    <<storeSummaries, storeChunks, docs_collection, next_oid, worker, tasks,
      entry, pc, query, metadata, query_embedding, relevant_summaries, chunks,
      search_results, prompt, response, raised, calls, batchVars, taskVars, asmVars>>

NextClient ==
    /\ entry = "OpenAIClient"
    /\ \E t \in Threads :
          \/ acquire_lock(t)
          \/ __new__(t)
          \/ __init__(t)
          \/ build_embeddings(t)
          \/ build_llm(t)
          \/ set_initialized(t)
          \/ get_embeddings_model(t)
          \/ get_llm(t)
    /\ UNCHANGED clientUnchanged

SpecClient == InitThreads /\ [][NextClient]_vars

(***************************************************************************)
(* Properties.                                                             *)
(***************************************************************************)
\* the log entries of one kind of call
CallsOf(name) == {i \in 1..Len(calls) : calls[i].call = name}

Returned(name) == \E i \in CallsOf(name) : calls[i].outcome = "returned"

SomeCallRaised == \E i \in 1..Len(calls) : calls[i].outcome = "raised"

AnswerSynthesized == Returned("completion")

ResponseFields == {"answer", "citations", "confidence", "metadata"}

Degraded(r) ==
    /\ r.confidence = Zero
    /\ r.citations = <<>>
    /\ "error" \in DOMAIN r.metadata

\* C1: process_query never raises, whichever of the embedding call, the store
\* searches and the completion call fail; it returns a response with the
\* fields answer, citations, confidence and metadata, and when a failure kept
\* an answer from being synthesized the response has confidence 0.0, no
\* citations and an error key in its metadata.
C1_NeverRaises ==
    /\ ~raised
    /\ (entry = "process_query" /\ pc = "done") =>
          /\ DOMAIN response = ResponseFields
          /\ (SomeCallRaised /\ ~AnswerSynthesized) => Degraded(response)

C1_Witness ==
    /\ entry = "process_query"
    /\ pc = "done"
    /\ \E i \in CallsOf("completion") : calls[i].outcome = "raised"
    /\ \E i \in CallsOf("anchored_search") : calls[i].outcome = "raised"
    /\ Degraded(response)

\* every search stage of the query that ran yielded nothing
EverySearchEmpty ==
    /\ CallsOf("summary_search") # {}
    /\ \A i \in 1..Len(calls) :
          calls[i].call \in {"summary_search", "anchored_search",
                             "fallback_search", "direct_search"}
             => calls[i].items = <<>>

\* C2: when every search stage yields nothing, process_query returns the
\* fixed no-content apology with confidence 0.0 and no citations, and the
\* completion service is not called.
C2_NoContent ==
    (entry = "process_query" /\ pc = "done" /\ EverySearchEmpty) =>
        /\ response.answer = NoContentAnswer
        /\ response.confidence = Zero
        /\ response.citations = <<>>
        /\ CallsOf("completion") = {}

C2_Witness ==
    /\ entry = "process_query"
    /\ pc = "done"
    /\ EverySearchEmpty
    /\ CallsOf("direct_search") # {}
    /\ response.answer = NoContentAnswer

\* the position in the input of the first chunk whose normalized content is
\* that of the chunk at position i
FirstOfGroup(in, i) ==
    CHOOSE k \in 1..i :
        /\ _normalize_content(in[k].content) = _normalize_content(in[i].content)
        /\ \A m \in 1..(k - 1) :
              _normalize_content(in[m].content) # _normalize_content(in[i].content)

\* the positions in the output that hold a chunk of the group of input i
OutOfGroup(in, out, i) ==
    {o \in 1..Len(out) :
        _normalize_content(out[o].content) = _normalize_content(in[i].content)}

\* C3: _process_chunks keeps exactly one chunk per group of equal normalized
\* content, and that chunk has the content and the score of the group's first
\* member in input order (0.7 when the first member has no score).
C3_FirstOccurrenceWins ==
    (entry = "_process_chunks" /\ pc = "done") =>
        /\ \A i \in 1..Len(arg_chunks) :
              LET first == arg_chunks[FirstOfGroup(arg_chunks, i)]
                  outs == OutOfGroup(arg_chunks, out_chunks, i)
              IN  /\ Cardinality(outs) = 1
                  /\ \A o \in outs :
                        /\ out_chunks[o].content = first.content
                        /\ out_chunks[o].score =
                              IF "score" \in DOMAIN first THEN first.score
                                                          ELSE DefaultScore
        /\ \A o \in 1..Len(out_chunks) :
              \E i \in 1..Len(arg_chunks) : o \in OutOfGroup(arg_chunks, out_chunks, i)

C3_Witness ==
    /\ entry = "_process_chunks"
    /\ pc = "done"
    /\ Len(arg_chunks) = 3
    /\ Len(out_chunks) = 1
    /\ "score" \notin DOMAIN arg_chunks[1]
    /\ "score" \in DOMAIN arg_chunks[2]
    /\ arg_chunks[2].score # DefaultScore
    /\ arg_chunks[2].content # arg_chunks[1].content
    /\ out_chunks[1].score = DefaultScore

\* the position in the input of the first occurrence of output chunk o
FirstSeen(in, out, o) ==
    CHOOSE k \in 1..Len(in) :
        /\ _normalize_content(in[k].content) = _normalize_content(out[o].content)
        /\ \A m \in 1..(k - 1) :
              _normalize_content(in[m].content) # _normalize_content(out[o].content)

\* C4: the output of _process_chunks is ordered by non-increasing score, and
\* chunks of equal score keep the order of their first occurrences in the input.
C4_SortedStable ==
    (entry = "_process_chunks" /\ pc = "done") =>
        \A o1, o2 \in 1..Len(out_chunks) :
            o1 < o2 =>
                /\ out_chunks[o1].score >= out_chunks[o2].score
                /\ out_chunks[o1].score = out_chunks[o2].score =>
                      FirstSeen(arg_chunks, out_chunks, o1)
                          < FirstSeen(arg_chunks, out_chunks, o2)

C4_Witness ==
    /\ entry = "_process_chunks"
    /\ pc = "done"
    /\ Len(out_chunks) = 3
    /\ out_chunks[1].score > out_chunks[2].score
    /\ out_chunks[2].score = out_chunks[3].score
    /\ FirstSeen(arg_chunks, out_chunks, 1) = 3

\* the number of calls of one kind issued so far
Issued(name) == Cardinality(CallsOf(name))

AnchoredReturned(empty) ==
    \E i \in CallsOf("anchored_search") :
        /\ calls[i].outcome = "returned"
        /\ (calls[i].items = <<>>) = empty

\* C5: when the anchored chunk search returns zero items the unrestricted
\* top-5 chunk search is issued exactly once for the query (it is the next
\* call); when the anchored search returns items it is not issued.
C5_FallbackOnce ==
    entry = "process_query" =>
        /\ AnchoredReturned(TRUE) =>
              \/ pc = "fallback" /\ Issued("fallback_search") = 0
              \/ /\ Issued("fallback_search") = 1
                 /\ \A i \in CallsOf("fallback_search") :
                       /\ i - 1 \in CallsOf("anchored_search")
                       /\ calls[i].outcome = "returned" =>
                             calls[i].items = Take(storeChunks, FallbackK)
        /\ AnchoredReturned(FALSE) =>
              pc # "fallback" /\ Issued("fallback_search") = 0

C5_Witness ==
    /\ entry = "process_query"
    /\ pc = "done"
    /\ AnchoredReturned(TRUE)
    /\ \E i \in CallsOf("fallback_search") : Len(calls[i].items) >= 2

\* the chunks collected by steps 3-4, read off the call log
CollectedByAnchoring ==
    IF \E i \in CallsOf("fallback_search") : TRUE
    THEN calls[CHOOSE i \in CallsOf("fallback_search") : TRUE].items
    ELSE IF \E i \in CallsOf("anchored_search") : TRUE
    THEN calls[CHOOSE i \in CallsOf("anchored_search") : TRUE].items
    ELSE <<>>

\* search has returned to process_query
SearchDone == pc \in {"completion", "done"} /\ Returned("embed")

\* C6: when fewer than 3 chunks are collected after steps 3-4, exactly one
\* supplementary search is issued and every item it returns is appended to
\* the collected chunks, whatever the count becomes; with 3 or more
\* collected no supplementary search is issued.
C6_SupplementaryOnce ==
    (entry = "process_query" /\ SearchDone) =>
        IF Len(CollectedByAnchoring) < MinChunks
        THEN /\ Issued("direct_search") = 1
             /\ \A i \in CallsOf("direct_search") :
                   chunks = CollectedByAnchoring \o calls[i].items
        ELSE /\ Issued("direct_search") = 0
             /\ chunks = CollectedByAnchoring

C6_Witness ==
    /\ entry = "process_query"
    /\ SearchDone
    /\ Len(CollectedByAnchoring) = 2
    /\ Issued("direct_search") = 1
    /\ Len(chunks) > MinChunks

C6_WitnessEnough ==
    /\ entry = "process_query"
    /\ SearchDone
    /\ Len(CollectedByAnchoring) = MinChunks
    /\ Issued("direct_search") = 0

InUnitRange(c) == FracLeq(Zero, c) /\ FracLeq(c, Frac(ConfidenceCap, 1))

\* C7 as stated: the confidence of every response lies in [0.0, 0.95] and is
\* 0.0 only when the response has no citations.
C7_ZeroOnlyWithoutCitations ==
    (entry = "process_query" /\ pc = "done") =>
        /\ InUnitRange(response.confidence)
        /\ response.confidence = Zero => response.citations = <<>>

\* C7, amended: for retrieval scores in [0, 1] the confidence of every
\* response lies in [0.0, 0.95], and it is 0.0 only when the response has no
\* citations or every citation has confidence 0.0 (a chunks-only answer whose
\* chunks all scored 0.0); with a summary citation it is never 0.0.
C7_ConfidenceRange ==
    (entry = "process_query" /\ pc = "done") =>
        /\ InUnitRange(response.confidence)
        /\ response.confidence = Zero =>
              \A i \in 1..Len(response.citations) :
                  /\ response.citations[i].metadata.confidence = 0
                  /\ response.citations[i].metadata.document_path # "summary"

C7_Witness ==
    /\ entry = "process_query"
    /\ pc = "done"
    /\ AnswerSynthesized
    /\ Len(response.citations) = 2
    /\ response.confidence = Zero

\* the confidence a chunk contributes to its citation
ChunkScore(chunk) == IF "score" \in DOMAIN chunk THEN chunk.score ELSE DefaultScore

\* C8: in the comprehensive branch the citations are one per summary
\* (confidence 0.9, document path "summary") in summary order, then one per
\* chunk (confidence the chunk's score, 0.7 if it has none) in chunk order;
\* in the chunks-only branch they are one per chunk.
C8_CitationAssembly ==
    (entry = "generate_response" /\ pc = "done" /\ AnswerSynthesized) =>
        LET summaries == search_results.summaries
            chs == search_results.chunks
            ns == Len(summaries)
            cits == response.citations
        IN  /\ Len(cits) = ns + Len(chs)
            /\ \A i \in 1..ns :
                  /\ cits[i].content = summaries[i].summary
                  /\ cits[i].metadata.confidence = SummaryConfidence
                  /\ cits[i].metadata.document_path = "summary"
            /\ \A j \in 1..Len(chs) :
                  /\ cits[ns + j].content = chs[j].content
                  /\ cits[ns + j].metadata.confidence = ChunkScore(chs[j])
                  /\ cits[ns + j].metadata.document_path # "summary"

C8_Witness ==
    /\ entry = "generate_response"
    /\ pc = "done"
    /\ AnswerSynthesized
    /\ Len(search_results.summaries) = SummaryK
    /\ Len(search_results.chunks) = 3
    /\ "score" \notin DOMAIN search_results.chunks[2]
    /\ Len(response.citations) = SummaryK + 3

RECURSIVE SumChunkScores(_)
SumChunkScores(chs) ==
    IF chs = <<>> THEN 0 ELSE ChunkScore(Head(chs)) + SumChunkScores(Tail(chs))

\* c = min(0.95, n/d) for a fraction c and integers n >= 0, d > 0
IsCappedQuotient(c, n, d) ==
    IF n >= ConfidenceCap * d
    THEN c.num = ConfidenceCap /\ c.den = 1
    ELSE c.num * d = n * c.den

\* C9: in the chunks-only branch the confidence is min(0.95, mean of the
\* citation confidences); in the comprehensive branch it is min(0.95, mean
\* of [0.9, mean of the citation confidences]), where a summary citation
\* counts 0.9 and a chunk citation its score.
C9_ConfidenceFormula ==
    (entry = "generate_response" /\ pc = "done" /\ AnswerSynthesized) =>
        LET ns == Len(search_results.summaries)
            nc == Len(search_results.chunks)
            total == SummaryConfidence * ns + SumChunkScores(search_results.chunks)
            count == ns + nc
        IN  IF ns = 0
            THEN IsCappedQuotient(response.confidence, total, count)
            ELSE IsCappedQuotient(response.confidence,
                                  SummaryConfidence * count + total, 2 * count)

C9_Witness ==
    /\ entry = "generate_response"
    /\ pc = "done"
    /\ AnswerSynthesized
    /\ Len(search_results.summaries) = 2
    /\ Len(search_results.chunks) = 3
    /\ response.confidence = Frac(76, 1)

C9_WitnessCapped ==
    /\ entry = "generate_response"
    /\ pc = "done"
    /\ AnswerSynthesized
    /\ Len(search_results.summaries) = 0
    /\ Len(search_results.chunks) = 2
    /\ response.confidence = Frac(ConfidenceCap, 1)
    /\ response.citations[1].metadata.confidence > ConfidenceCap

\* the context of a prompt holds the summaries, then the chunks
SummariesBeforeChunks(context, sr) ==
    LET ns == Len(sr.summaries)
    IN  /\ Len(context) = ns + Len(sr.chunks)
        /\ \A i \in 1..ns :
              context[i].label = "Summary" /\ context[i].text = sr.summaries[i].summary
        /\ \A j \in 1..Len(sr.chunks) :
              /\ context[ns + j].label = "Detail"
              /\ context[ns + j].text = sr.chunks[j].content

\* C10: with at least one summary the comprehensive branch runs whatever the
\* chunk count, its context holding the summaries before the chunks; with no
\* summary and at least one chunk the chunks-only branch runs; either way
\* exactly one completion call is issued and the text it generates is the
\* answer, unmodified.
C10_BranchSelection ==
    (entry = "process_query" /\ SearchDone
        /\ (search_results.summaries # <<>> \/ search_results.chunks # <<>>)) =>
        /\ search_results.summaries # <<>> =>
              /\ prompt.template = "comprehensive"
              /\ SummariesBeforeChunks(prompt.context, search_results)
        /\ search_results.summaries = <<>> =>
              /\ prompt.template = "chunks"
              /\ Len(prompt.context) = Len(search_results.chunks)
              /\ \A j \in 1..Len(prompt.context) :
                    /\ prompt.context[j].label = "Source"
                    /\ prompt.context[j].text = search_results.chunks[j].content
        /\ Issued("completion") = IF pc = "done" THEN 1 ELSE 0
        /\ \A i \in CallsOf("completion") :
              calls[i].outcome = "returned" => response.answer = calls[i].items[1]

C10_Witness ==
    /\ entry = "process_query"
    /\ pc = "done"
    /\ search_results.summaries # <<>>
    /\ search_results.chunks = <<>>
    /\ prompt.template = "comprehensive"
    /\ Issued("completion") = 1
    /\ response.answer \in CompletionTexts


(***************************************************************************)
(* Failure handling of the Search Orchestrator and the terminal error      *)
(* responses.                                                              *)
(***************************************************************************)
SearchStages ==
    {"summary_search", "anchored_search", "fallback_search", "direct_search"}

\* the stages whose store search raised
RaisedStages ==
    {calls[i].call : i \in {j \in 1..Len(calls) :
                               /\ calls[j].call \in SearchStages
                               /\ calls[j].outcome = "raised"}}

\* what one stage contributed to the query, nothing when it did not run
StageItems(name) ==
    IF CallsOf(name) = {} THEN <<>> ELSE calls[CHOOSE i \in CallsOf(name) : TRUE].items

\* search has handed its result to process_query
SearchReturned == "search_type" \in DOMAIN search_results.metadata

\* C11: each vector-search stage of search (summary, anchored, fallback,
\* supplementary) is fault-tolerant on its own: when its store search
\* raises, the stage contributes an empty list, nothing is raised, and once
\* the query is over search has returned a result made of what the other
\* stages contributed.
C11_StagesFaultTolerant ==
    (entry = "process_query" /\ RaisedStages # {}) =>
        /\ \A name \in RaisedStages : StageItems(name) = <<>>
        /\ ~raised
        /\ pc \in {"anchored", "fallback", "direct", "completion", "done"}
        /\ pc \in {"completion", "done"} =>
              /\ SearchReturned
              /\ search_results.summaries = StageItems("summary_search")
              /\ search_results.chunks =
                    _process_chunks(StageItems("anchored_search")
                                    \o StageItems("fallback_search")
                                    \o StageItems("direct_search"))

\* the supplementary search raised after the anchored search had found
\* chunks, and search returned those chunks
C11_Witness ==
    /\ pc = "done"
    /\ "direct_search" \in RaisedStages
    /\ StageItems("anchored_search") # <<>>
    /\ SearchReturned
    /\ search_results.chunks # <<>>

\* the two places a terminal error response is built: process_query's except
\* clause (search raised) and generate_response's (the completion raised)
CaughtByPipeline == pc = "done" /\ entry = "process_query" /\ ~SearchReturned

CaughtBySynthesizer ==
    /\ pc = "done"
    /\ \E i \in CallsOf("completion") : calls[i].outcome = "raised"

\* C12: every terminal error response has one shape, whether the Response
\* Synthesizer or the Query Pipeline caught the exception: the fixed apology
\* string of the synthesizer's error response, confidence 0.0, no citations,
\* and a metadata object with both the error description and the error time.
C12_SameErrorShape ==
    (CaughtByPipeline \/ CaughtBySynthesizer) =>
        /\ response.answer = GeneratorErrorAnswer
        /\ response.confidence = Zero
        /\ response.citations = <<>>
        /\ {"error", "error_time"} \subseteq DOMAIN response.metadata

\* C16 as stated: no failure of the embedding call or of a store search
\* leaves search; whenever the query is over, search has returned a result.
C16_NothingLeavesSearch ==
    (entry = "process_query" /\ pc = "done") => SearchReturned

\* C16: no failure of a store search is re-raised out of search: each is
\* replaced by an empty list inside its stage.  A failure of the
\* query-embedding call is logged and re-raised out of search before any
\* store search is issued; process_query turns it into its error response.
C16_OnlyEmbeddingLeavesSearch ==
    (entry = "process_query" /\ pc = "done") =>
        /\ SearchReturned <=> Returned("embed")
        /\ ~raised
        /\ ~Returned("embed") =>
              /\ \A i \in 1..Len(calls) : calls[i].call = "embed"
              /\ response = [answer |-> PipelineErrorAnswer,
                             citations |-> <<>>,
                             confidence |-> Zero,
                             metadata |-> [error |-> "embed_query failed"]]

\* every store search of one query raised and search returned all the same
C16_Witness ==
    /\ pc = "done"
    /\ RaisedStages = {"summary_search", "direct_search"}
    /\ SearchReturned
    /\ search_results.chunks = <<>>

\* the embedding call raised and the query ended with the pipeline's error
C16_WitnessEmbedding ==
    /\ pc = "done"
    /\ entry = "process_query"
    /\ ~Returned("embed")
    /\ response.answer = PipelineErrorAnswer


(***************************************************************************)
(* The chunk searches of the Search Orchestrator.                          *)
(***************************************************************************)
\* the chunks a global nearest-neighbour search of the orchestrator ranks
GloballyNearest(k) == Range(Take(storeChunks, k))

ReachableContents == {_normalize_content(c.content) : c \in GloballyNearest(DirectK)}

\* C17: search hands fewer than 3 chunks to the synthesizer only when no
\* further chunk exists: when no store search fails and the chunks a global
\* nearest-neighbour search reaches hold at least 3 pairwise distinct
\* normalized contents, the deduplicated chunk list has at least 3 items.
C17_SufficiencyFloor ==
    (/\ entry = "process_query"
     /\ SearchReturned
     /\ RaisedStages = {}
     /\ Cardinality(ReachableContents) >= MinChunks)
        => Len(search_results.chunks) >= MinChunks

\* the store ids of the chunks collected by steps 3-4
CollectedIds == {c._id : c \in Range(CollectedByAnchoring)}

\* C18: the supplementary search of step 5 excludes every chunk collected in
\* steps 3-4: no chunk it returns has the store id of a collected chunk.
C18_ExcludesCollected ==
    \A i \in CallsOf("direct_search") :
        \A k \in 1..Len(calls[i].items) : calls[i].items[k]._id \notin CollectedIds

\* C19 as stated: the supplementary search appends every chunk among the 10
\* globally nearest that is not already collected (up to 10 chunks).
C19_TopTenAppended ==
    \A i \in CallsOf("direct_search") :
        calls[i].outcome = "returned" =>
            \A c \in GloballyNearest(DirectK) :
                c._id \notin CollectedIds => c \in Range(calls[i].items)

\* s is t with some items left out, the order kept
RECURSIVE IsSubsequence(_, _)
IsSubsequence(s, t) ==
    IF s = <<>> THEN TRUE
    ELSE IF t = <<>> THEN FALSE
    ELSE IF Head(s) = Head(t) THEN IsSubsequence(Tail(s), Tail(t))
    ELSE IsSubsequence(s, Tail(t))

\* C19: the supplementary search ranks the 10 globally nearest chunks and
\* returns at most 5 of them, in rank order: it appends at most 5 chunks,
\* and a chunk among the 10 nearest that is not already collected is left
\* out only when 5 chunks were returned.
C19_AtMostFive ==
    \A i \in CallsOf("direct_search") :
        calls[i].outcome = "returned" =>
            /\ Len(calls[i].items) <= DirectLimit
            /\ IsSubsequence(calls[i].items, Take(storeChunks, DirectK))
            /\ (\E c \in GloballyNearest(DirectK) :
                    c._id \notin CollectedIds /\ c \notin Range(calls[i].items))
                   => Len(calls[i].items) = DirectLimit

\* 5 chunks were appended and a sixth of the 10 nearest, not collected, was not
C19_Witness ==
    /\ pc = "done"
    /\ \E i \in CallsOf("direct_search") :
          /\ Len(calls[i].items) = DirectLimit
          /\ \E c \in GloballyNearest(DirectK) :
                c._id \notin CollectedIds /\ c \notin Range(calls[i].items)

\* chunk c hangs under one of the retrieved summaries
UnderRetrievedSummary(c) ==
    \E s \in Range(relevant_summaries) : c.summary_id = s._id \/ c.root_id = s.root_id

\* C20: the anchored search of step 3 is issued only when at least one
\* summary was found; every chunk it returns is one of the 10 globally
\* nearest chunks and hangs under a retrieved summary by its summary
\* reference or its root id; it returns at most 10 chunks.
C20_AnchoredSearch ==
    /\ (CallsOf("anchored_search") # {}) => relevant_summaries # <<>>
    /\ \A i \in CallsOf("anchored_search") :
          /\ Len(calls[i].items) <= AnchoredLimit
          /\ \A k \in 1..Len(calls[i].items) :
                /\ calls[i].items[k] \in GloballyNearest(AnchoredK)
                /\ UnderRetrievedSummary(calls[i].items[k])

\* the anchored search returned chunks while a chunk of a retrieved summary
\* ranked beyond the 10 nearest stayed out
C20_Witness ==
    /\ \E i \in CallsOf("anchored_search") : calls[i].items # <<>>
    /\ \E j \in (AnchoredK + 1)..Len(storeChunks) : UnderRetrievedSummary(storeChunks[j])


(***************************************************************************)
(* Batch mode.                                                             *)
(***************************************************************************)
\* query i of the batch failed: its embedding call or its completion call
\* raised, which ends the query with an error response
ItemFailed(i) ==
    \E k \in 1..Len(batch_log[i].calls) :
        /\ batch_log[i].calls[k].call \in {"embed", "completion"}
        /\ batch_log[i].calls[k].outcome = "raised"

\* an entry of the result list that reports a failed query
ErrorEntry(r) ==
    \/ "error" \in DOMAIN r
    \/ /\ r.answer \in {PipelineErrorAnswer, GeneratorErrorAnswer}
       /\ "error" \in DOMAIN r.metadata

\* C13: process_batch_queries processes its queries one at a time in input
\* order; a query that fails gets an error entry of its own at its place in
\* the list and the queries after it are still processed: each other entry
\* is the response of its query, and the returned list has exactly one
\* entry per input query, in input order.
C13_BatchIsolation ==
    entry = "process_batch_queries" =>
        /\ Len(responses) = Len(batch_log)
        /\ Len(responses) <= Len(batch_queries)
        /\ \A i \in 1..Len(batch_log) :
              /\ batch_log[i].query = batch_queries[i]
              /\ ItemFailed(i) <=> ErrorEntry(responses[i])
        /\ pc \notin {"idle", "batch_done"} =>
              /\ Len(responses) < Len(batch_queries)
              /\ query = batch_queries[Len(responses) + 1]
        /\ pc = "batch_done" => Len(responses) = Len(batch_queries)

\* a batch of two different queries whose first query failed and whose
\* second query was answered
C13_Witness ==
    /\ pc = "batch_done"
    /\ Len(batch_queries) = 2
    /\ batch_queries[1] # batch_queries[2]
    /\ ItemFailed(1)
    /\ ~ItemFailed(2)
    /\ responses[2].answer \in CompletionTexts


(***************************************************************************)
(* Concurrent queries.  The reference is what process_query returns when   *)
(* it runs alone on the store and its own calls end as its call log says.  *)
(***************************************************************************)
\* how the call of one kind ended in a call log, "none" when it was not made
OutcomeIn(log, name) ==
    LET made == {i \in 1..Len(log) : log[i].call = name}
    IN  IF made = {} THEN "none" ELSE log[CHOOSE i \in made : TRUE].outcome

\* the chunks search collects alone, before _process_chunks
AloneCollected(log) ==
    LET summaries ==
            IF OutcomeIn(log, "summary_search") = "returned"
            THEN SummarySearch(storeSummaries) ELSE <<>>
        anchored ==
            IF summaries # <<>> /\ OutcomeIn(log, "anchored_search") = "returned"
            THEN AnchoredSearch(storeChunks, summaries) ELSE <<>>
        anchored_failed ==
            summaries = <<>> \/ OutcomeIn(log, "anchored_search") = "raised"
        from_summaries ==
            IF anchored_failed THEN <<>>
            ELSE IF anchored # <<>> THEN anchored
            ELSE IF OutcomeIn(log, "fallback_search") = "returned"
            THEN FallbackSearch(storeChunks) ELSE <<>>
    IN  IF Len(from_summaries) >= MinChunks THEN from_summaries
        ELSE IF OutcomeIn(log, "direct_search") = "returned"
        THEN from_summaries \o DirectSearch(storeChunks, ExistingChunkIds(from_summaries))
        ELSE from_summaries

\* the result search returns alone
AloneSearch(log) ==
    LET summaries ==
            IF OutcomeIn(log, "summary_search") = "returned"
            THEN SummarySearch(storeSummaries) ELSE <<>>
        processed == _process_chunks(AloneCollected(log))
    IN  [chunks |-> processed,
         summaries |-> summaries,
         metadata |-> [total_chunks |-> Len(processed),
                       summary_count |-> Len(summaries),
                       search_type |-> "hybrid"]]

\* the response process_query returns alone
AloneResponse(m, log) ==
    IF OutcomeIn(log, "embed") = "raised"
    THEN process_query_except("embed_query failed").value
    ELSE LET sr == AloneSearch(log)
             text == log[Len(log)].items[1]
             branch ==
                 IF sr.summaries # <<>>
                 THEN _generate_comprehensive_response(sr, text)
                 ELSE _generate_chunks_response(sr, text)
             generated ==
                 IF sr.chunks = <<>> /\ sr.summaries = <<>>
                 THEN _create_no_content_response
                 ELSE IF OutcomeIn(log, "completion") = "raised"
                 THEN _create_error_response("completion failed")
                 ELSE UpdateMetadata(branch, sr, m)
         IN  AddProcessingInfo(generated, sr)

\* the reference agrees with process_query running alone
AloneIsProcessQuery ==
    (entry = "process_query" /\ pc = "done") =>
        /\ response = AloneResponse(metadata, calls)
        /\ Returned("embed") =>
              /\ search_results = AloneSearch(calls)
              /\ chunks = AloneCollected(calls)

\* a finished query has the chunks and the response it has when it runs alone
AsAlone(task) ==
    task.pc = "done" =>
        /\ ~task.raised
        /\ task.response = AloneResponse(task.metadata, task.calls)
        /\ OutcomeIn(task.calls, "embed") = "returned" =>
              /\ task.search_results = AloneSearch(task.calls)
              /\ task.chunks = AloneCollected(task.calls)

\* C15: of two queries in flight on one RAGSystem, interleaved at their
\* awaits, each ends with the collected chunks, citations, confidence and
\* answer it has when it runs alone with the same outcomes of its own
\* calls; a failure in one query degrades that query only.
C15_QueriesIsolated ==
    entry = "concurrent_queries" => AsAlone(RunningTask) /\ AsAlone(sibling)

\* both queries are over, the suspended one ended in the pipeline's error
\* response after a later start, the other was answered with citations
C15_Witness ==
    /\ entry = "concurrent_queries"
    /\ pc = "done"
    /\ sibling.pc = "done"
    /\ current = 1
    /\ sibling.response.answer = PipelineErrorAnswer
    /\ response.answer \in CompletionTexts
    /\ response.citations # <<>>
    /\ OutcomeIn(calls, "direct_search") = "returned"


(***************************************************************************)
(* Ingestion.                                                              *)
(***************************************************************************)
\* the store ids of the records a collection holds for a root id
IdsOfRoot(collection, root_id) ==
    {collection[k]._id : k \in {j \in 1..Len(collection) : collection[j].root_id = root_id}}

\* the last two root ids of the batch were the same one, both runs found
\* documents and succeeded, and nothing was done since
IngestedTwice ==
    /\ entry = "process_batch"
    /\ worker.pc \in {"delete_chunks", "batch_done"}
    /\ Len(worker.log) >= 2
    /\ LET first == worker.log[Len(worker.log) - 1]
           second == worker.log[Len(worker.log)]
       IN  /\ first.root_id = second.root_id
           /\ first.ok /\ second.ok
           /\ first.documents > 0 /\ second.documents > 0

\* C14: after the same root id is ingested twice in succession through
\* process_batch, with documents for it and both runs succeeding, the
\* summary collection holds exactly one summary for the root id, the one of
\* the second run, and the chunk collection holds for it exactly the chunks
\* the second run wrote, none of the first run.
C14_ReingestionReplaces ==
    IngestedTwice =>
        LET first == worker.log[Len(worker.log) - 1]
            second == worker.log[Len(worker.log)]
        IN  /\ IdsOfRoot(storeSummaries, second.root_id) = {second.summary_id}
            /\ Cardinality({k \in 1..Len(storeSummaries) :
                               storeSummaries[k].root_id = second.root_id}) = 1
            /\ IdsOfRoot(storeChunks, second.root_id) = second.chunk_ids
            /\ second.chunk_ids # {}
            /\ second.chunk_ids \cap first.chunk_ids = {}
            /\ first.summary_id # second.summary_id

\* the first run wrote more chunks than the second
C14_Witness ==
    /\ IngestedTwice
    /\ Cardinality(worker.log[Len(worker.log) - 1].chunk_ids)
          > Cardinality(worker.log[Len(worker.log)].chunk_ids)

\* C21: within one call of search the Embedding Service is called exactly
\* once, as the first external call and so before any store search, and the
\* vector it returned is the one passed to the summary search and to every
\* chunk search that runs; no stage embeds the query again.
C21_EmbeddedOnce ==
    entry = "process_query" =>
        /\ Cardinality(CallsOf("embed")) <= 1
        /\ pc \notin {"idle", "embed"} => Cardinality(CallsOf("embed")) = 1
        /\ \A i \in CallsOf("embed") : i = 1
        /\ \A i \in 1..Len(calls) :
              calls[i].call \in VectorSearches =>
                  /\ calls[1].call = "embed"
                  /\ calls[1].outcome = "returned"
                  /\ calls[i].vector = calls[1].vector
                  /\ calls[i].vector = Embedding(query, 1)

\* a query ran the summary search and all three chunk searches
C21_Witness ==
    /\ entry = "process_query"
    /\ pc = "done"
    /\ \A name \in VectorSearches : CallsOf(name) # {}
    /\ AnswerSynthesized

\* the keys process_query writes into the metadata of what generate_response
\* returned (rag_system.py, lines 46-53)
PipelineKeys == {"processed_at", "sources_used"}

\* the sources_used entry process_query computes from the search results
PipelineSourcesUsed ==
    [summaries |-> Len(search_results.summaries), chunks |-> Len(search_results.chunks)]

\* C22: for every response returned by process_query(query, metadata=M),
\* whichever terminal or answer branch produced it, every key of M is present
\* in the response's metadata with M's value.
C22_CallerMetadataMerged ==
    (entry = "process_query" /\ pc = "done") =>
        \A k \in DOMAIN metadata :
            /\ k \in DOMAIN response.metadata
            /\ response.metadata[k] = metadata[k]

\* C22 (amended): a response that carries a synthesized answer has every key
\* of M other than processed_at and sources_used with M's value, and these
\* two with the pipeline's own values; a no-content or error response has
\* no key of M with M's value.
C22_MergedIntoAnswers ==
    (entry = "process_query" /\ pc = "done") =>
        IF AnswerSynthesized
        THEN /\ \A k \in DOMAIN metadata \ PipelineKeys :
                   /\ k \in DOMAIN response.metadata
                   /\ response.metadata[k] = metadata[k]
             /\ response.metadata.processed_at = Now
             /\ response.metadata.sources_used = PipelineSourcesUsed
        ELSE /\ Degraded(response)
             /\ \A k \in DOMAIN metadata :
                   k \in DOMAIN response.metadata => response.metadata[k] # metadata[k]

\* an answer was synthesized for a call that supplied metadata, among it the
\* keys the pipeline writes itself
C22_Witness ==
    /\ entry = "process_query"
    /\ pc = "done"
    /\ AnswerSynthesized
    /\ PipelineKeys \subseteq DOMAIN metadata
    /\ response.metadata.test_run = "yes"
    /\ response.metadata.search_type = "caller"

\* the citations that stand for a summary
SummaryCitations(r) ==
    {i \in 1..Len(r.citations) : r.citations[i].metadata.document_path = "summary"}

\* the citations that stand for a chunk
ChunkCitations(r) == (1..Len(r.citations)) \ SummaryCitations(r)

\* C23: in every response returned by process_query that carries
\* metadata.sources_used, sources_used.summaries is the number of summary
\* citations of the response and sources_used.chunks the number of its chunk
\* citations.
C23_SourcesUsedCountCitations ==
    (/\ entry = "process_query"
     /\ pc = "done"
     /\ "sources_used" \in DOMAIN response.metadata) =>
        /\ response.metadata.sources_used.summaries = Cardinality(SummaryCitations(response))
        /\ response.metadata.sources_used.chunks = Cardinality(ChunkCitations(response))

\* the counts do agree with the citations whenever generate_response returned
\* an answer or the no-content response; they differ only on the error
\* response of a failed completion call
C23_AgreeUnlessCompletionFailed ==
    (/\ entry = "process_query"
     /\ pc = "done"
     /\ "sources_used" \in DOMAIN response.metadata
     /\ ~C23_SourcesUsedCountCitations) =>
        /\ \E i \in CallsOf("completion") : calls[i].outcome = "raised"
        /\ response.citations = <<>>
        /\ response.metadata.sources_used = PipelineSourcesUsed

\* C29: a response returned by process_query has an error key in its
\* metadata if and only if it is a terminal no-content or error response
\* (confidence 0.0 and no citations), whatever metadata the caller supplied,
\* and its sources_used counts are the pipeline's own.
C29_ErrorMarksDegraded ==
    (entry = "process_query" /\ pc = "done") =>
        /\ "error" \in DOMAIN response.metadata
              <=> (response.confidence = Zero /\ response.citations = <<>>)
        /\ "sources_used" \in DOMAIN response.metadata =>
              response.metadata.sources_used = PipelineSourcesUsed

\* without an error key in the caller's metadata the error key does mark
\* exactly the terminal responses, and no caller metadata overrides the
\* pipeline's sources_used
C29_HoldsWithoutCallerError ==
    (entry = "process_query" /\ pc = "done" /\ ~C29_ErrorMarksDegraded) =>
        /\ "error" \in DOMAIN metadata
        /\ AnswerSynthesized
        /\ response.metadata.error = metadata.error
        /\ response.metadata.sources_used = PipelineSourcesUsed

\* C27: a failure of the anchored chunk search is handled like the anchored
\* search returning zero items: the stage counts as zero results and the
\* top-5 global fallback search is issued for the query before the
\* sufficiency check (which the model takes in the same step that leaves the
\* chunk stage).
C27_FallbackAfterFailure ==
    entry = "process_query" =>
        \A i \in CallsOf("anchored_search") :
            calls[i].outcome = "raised" =>
                /\ calls[i].items = <<>>
                /\ \E j \in CallsOf("fallback_search") : j = i + 1

\* what the code does instead: after a failed anchored search no fallback
\* search is ever issued; the stage yields zero chunks and search goes on to
\* the sufficiency check, so the supplementary search is the next store call
C27_FailureSkipsFallback ==
    entry = "process_query" =>
        \A i \in CallsOf("anchored_search") :
            calls[i].outcome = "raised" =>
                /\ calls[i].items = <<>>
                /\ CallsOf("fallback_search") = {}
                /\ pc \in {"direct", "completion", "done"}
                /\ Len(calls) > i => calls[i + 1].call = "direct_search"

\* the external calls one process_query call has issued stay within budget,
\* the completion call is the last of them, and the evidence the synthesizer
\* is handed is bounded
C28_Budget ==
    entry = "process_query" =>
        /\ Cardinality(CallsOf("embed")) <= 1
        /\ Cardinality(CallsOf("summary_search")) <= 1
        /\ Cardinality(CallsOf("anchored_search")) <= 1
        /\ Cardinality(CallsOf("fallback_search")) <= 1
        /\ Cardinality(CallsOf("direct_search")) <= 1
        /\ Cardinality(CallsOf("completion")) <= 1
        /\ \A i \in CallsOf("completion") : i = Len(calls) /\ pc = "done"
        /\ pc \in {"completion", "done"} =>
              /\ Len(search_results.summaries) <= SummaryK
              /\ Len(search_results.chunks) <= AnchoredLimit

\* C28: every process_query call eventually returns a response provided each
\* external call eventually returns or raises; on the way it issues at most
\* one embedding call, one summary search, three chunk searches (anchored,
\* fallback, supplementary) and one completion call, the completion call
\* only after all searches of the query have finished, and the synthesizer
\* is handed at most 5 summaries and at most 10 chunks.
C28_ReturnsWithinBudget ==
    /\ []C28_Budget
    /\ (entry = "process_query" /\ pc = "embed") ~> (pc = "done" /\ ~raised)

\* an answer was synthesized from as much evidence as a query can collect
C28_Witness ==
    /\ entry = "process_query"
    /\ pc = "done"
    /\ AnswerSynthesized
    /\ Len(search_results.summaries) = SummaryK
    /\ Len(search_results.chunks) = AnchoredLimit

\* the threads that have come back from OpenAIClient()
Constructed == {t \in Threads : client.threads[t].self # 0}

\* C24: for any number of OpenAIClient() constructions, interleaved across
\* threads, every caller obtains the same instance, the embeddings model and
\* the LLM handle are constructed exactly once, and get_embeddings_model and
\* get_llm return these first handles to every caller.
C24_SingletonClient ==
    entry = "OpenAIClient" =>
        /\ \A t \in Constructed : client.threads[t].self = client._instance
        /\ \A t, u \in Constructed : client.threads[t].self = client.threads[u].self
        /\ client.built_embeddings <= 1
        /\ client.built_llm <= 1
        /\ client.imported => client.built_embeddings = 1 /\ client.built_llm = 1
        /\ \A t \in Threads :
              /\ client.threads[t].embeddings \in {0, 1}
              /\ client.threads[t].llm \in {0, 1}
              /\ client.threads[t].pc = "done" =>
                    /\ client.threads[t].embeddings = client._embeddings_model
                    /\ client.threads[t].llm = client._llm
                    /\ client.threads[t].llm = 1

\* after the import two threads are inside their constructions at once, one
\* in __new__ and one in __init__, while a third already holds the handles
C24_Witness ==
    /\ entry = "OpenAIClient"
    /\ \E t, u, v \in Threads \ {Importer} :
          /\ client.threads[t].pc = "new"
          /\ client.threads[u].pc = "init"
          /\ client.threads[v].pc = "done"
          /\ client.threads[v].llm = 1

\* the summaries a chunk's summary reference resolves to
OwningSummaries(chunk) ==
    {i \in 1..Len(storeSummaries) : storeSummaries[i]._id = chunk.summary_id}

\* C26: in every state of the store during and after the ingestion or
\* re-ingestion of a root id, failed runs included, each persisted chunk has
\* non-empty content and its summary reference resolves to exactly one
\* existing summary, whose root id is the chunk's root id.
C26_ChunksWellFormed ==
    entry = "process_batch" =>
        \A j \in 1..Len(storeChunks) :
            /\ storeChunks[j].content # <<>>
            /\ Cardinality(OwningSummaries(storeChunks[j])) = 1
            /\ \A i \in OwningSummaries(storeChunks[j]) :
                  storeSummaries[i].root_id = storeChunks[j].root_id

\* the summary reference of every persisted chunk does resolve, in every
\* state, to exactly one summary of the chunk's root id
C26_SummaryResolves ==
    entry \in {"process_batch", "run_ingestion"} =>
        \A j \in 1..Len(storeChunks) :
            /\ Cardinality(OwningSummaries(storeChunks[j])) = 1
            /\ \A i \in OwningSummaries(storeChunks[j]) :
                  storeSummaries[i].root_id = storeChunks[j].root_id

\* process_batch is between two root ids, or has returned
BetweenRuns ==
    /\ entry = "process_batch"
    /\ worker.pc \in {"delete_chunks", "batch_done"}
    /\ worker.log # <<>>

\* the run of the root id that ended last
LastRun == worker.log[Len(worker.log)]

\* the records the store holds for a root id
Held(root_id) ==
    [summaries |-> RootRecordIds(storeSummaries, root_id),
     chunks |-> RootRecordIds(storeChunks, root_id)]

\* the records a run has written
NewSet(run) ==
    [summaries |-> IF run.summary_id = None THEN {} ELSE {run.summary_id},
     chunks |-> run.chunk_ids]

NoRecords == [summaries |-> {}, chunks |-> {}]

\* C30: re-ingestion of a root id is all-or-nothing: when a step of the run
\* failed (no documents found, or summary creation, chunking, embedding or a
\* store write raised), the store holds for the root id what it held before
\* the run, never an empty or partially written set.
C30_AllOrNothing ==
    BetweenRuns =>
        ((~LastRun.ok \/ LastRun.documents = 0) =>
            Held(LastRun.root_id) = LastRun.before)

\* C30 (amended): the run deletes before it writes and nothing is rolled
\* back.  The previous set survives whole only when the first delete raised;
\* when the summary delete raised the previous summary is left without its
\* chunks; when finding the documents, summarizing or storing the summary
\* failed, or no document was found, the root id is left empty; when
\* chunking or a chunk insert failed the new summary is left with the chunks
\* stored so far.  Records of the previous set are never mixed with new ones.
C30_FailureLeavesPartial ==
    BetweenRuns =>
        LET run == LastRun
            held == Held(run.root_id)
        IN  /\ run.stage = "delete_chunks" => held = run.before
            /\ run.stage = "delete_summary" =>
                  held = [summaries |-> run.before.summaries, chunks |-> {}]
            /\ run.stage \in {"find", "summarize", "store_summary"} => held = NoRecords
            /\ run.stage \in {"chunk", "insert_chunks"} =>
                  /\ held = NewSet(run)
                  /\ run.summary_id # None
                  /\ held.summaries \cap run.before.summaries = {}
                  /\ held.chunks \cap run.before.chunks = {}
            /\ run.ok => \/ run.stage = "find" /\ run.documents = 0
                         \/ run.stage = "insert_chunks" /\ run.chunk_ids # {}

\* a root id that had a summary and chunks was ingested again, and the run
\* failed at a chunk insert that stored part of its chunks
C30_Witness ==
    /\ BetweenRuns
    /\ ~LastRun.ok
    /\ LastRun.stage = "insert_chunks"
    /\ LastRun.before.summaries # {}
    /\ LastRun.before.chunks # {}
    /\ LastRun.chunk_ids # {}

\* the locals of every process_batch task, running or suspended
FanWorkers ==
    [i \in 1..Len(tasks.suspended) |->
        IF tasks.state = "running" /\ i = tasks.running THEN worker
        ELSE tasks.suspended[i]]

RECURSIVE Flatten(_)
Flatten(lists) == IF lists = <<>> THEN <<>> ELSE Head(lists) \o Flatten(Tail(lists))

\* the batches are non-empty, pairwise disjoint, cover the list in its order
\* and are no more than the workers
IsPartition(batches, root_ids) ==
    /\ Flatten(batches) = root_ids
    /\ Len(batches) <= NumWorkers
    /\ \A i \in 1..Len(batches) : batches[i] # <<>>
    /\ \A i, j \in 1..Len(batches) :
          i # j => Range(batches[i]) \cap Range(batches[j]) = {}

\* the batches of every non-empty list of distinct root ids of up to
\* MaxListLen elements, which need batches of one, two and three root ids
LongListsPartitioned ==
    \A n \in 1..MaxListLen :
        LET root_ids == [i \in 1..n |-> i]
        IN  IsPartition(Batches(root_ids, 1, BatchSize(n)), root_ids)

\* the batches handed to the tasks partition the root ids
FanOutPartitioned ==
    (entry = "run_ingestion" /\ tasks.state \in {"running", "done"}) =>
        /\ IsPartition(tasks.batches, tasks.root_ids)
        /\ Len(FanWorkers) = Len(tasks.batches)
        /\ \A i \in 1..Len(tasks.batches) : FanWorkers[i].batch = tasks.batches[i]
        /\ LongListsPartitioned

\* the records of one root id, in the order of the collection
RecordsOfRoot(collection, root_id) ==
    LET of_root(record) == record.root_id = root_id
    IN  SelectSeq(collection, of_root)

\* a step of the running task leaves the records of every root id outside
\* its batch as they are
OwnRootsOnly ==
    (entry = "run_ingestion" /\ tasks.state = "running" /\ tasks' = tasks) =>
        \A root_id \in FanRootIds \ Range(worker.batch) :
            /\ RecordsOfRoot(storeSummaries', root_id) = RecordsOfRoot(storeSummaries, root_id)
            /\ RecordsOfRoot(storeChunks', root_id) = RecordsOfRoot(storeChunks, root_id)

\* when every task has returned, each root id was run once, by the task of
\* its batch, and the store holds for it what that run wrote, whatever the
\* other tasks did in between
FanOutFinalStore ==
    (entry = "run_ingestion" /\ tasks.state = "done") =>
        /\ \A i \in 1..Len(tasks.suspended) :
              LET w == tasks.suspended[i]
              IN  /\ Len(w.log) = Len(w.batch)
                  /\ \A k \in 1..Len(w.log) :
                        /\ w.log[k].root_id = w.batch[k]
                        /\ Held(w.log[k].root_id) = NewSet(w.log[k])
        /\ tasks.successful + tasks.failed = Len(tasks.root_ids)

\* C25: for every list of distinct root ids the batches run_ingestion hands
\* to its workers are pairwise disjoint and together cover the list, so each
\* root id is deleted and re-ingested by exactly one worker, no worker
\* touches a root id of another worker's batch, and every interleaving of
\* the workers leaves for each root id the store contents its own run wrote.
C25_DisjointFanOut ==
    /\ [](FanOutPartitioned /\ FanOutFinalStore)
    /\ [][OwnRootsOnly]_vars

\* two workers have returned whose writes were interleaved: the second
\* stored its summary between the summary and a chunk of the first
C25_Witness ==
    /\ entry = "run_ingestion"
    /\ tasks.state = "done"
    /\ \E i, j \in 1..Len(tasks.suspended) :
          /\ i # j
          /\ tasks.suspended[i].log[1].ok
          /\ tasks.suspended[j].log[1].ok
          /\ tasks.suspended[i].log[1].documents > 0
          /\ tasks.suspended[j].log[1].documents > 0
          /\ tasks.suspended[i].log[1].summary_id.value
                < tasks.suspended[j].log[1].summary_id.value
          /\ \E c \in tasks.suspended[i].log[1].chunk_ids :
                c.value > tasks.suspended[j].log[1].summary_id.value

====
